---- MODULE Spec2Model ----
(***************************************************************************)
(* uv-toolbox: configuration discovery, layered settings resolution and    *)
(* content-addressed environment identity (src/uv_toolbox/settings.py).    *)
(*                                                                         *)
(* The filesystem seen by one invocation is a chain of directories         *)
(* 0 .. MaxDepth (0 is the filesystem root, d - 1 the parent of d) plus    *)
(* one directory outside the chain that holds explicitly named config      *)
(* files.  Optional values are sets: {} is None, {v} is the value v.       *)
(***************************************************************************)
EXTENDS Integers, Sequences, FiniteSets, TLC

VARIABLES
    tree,     \* tree[d][name]: the entry called name in chain directory d
    targets,  \* the entries in the directory outside the chain
    inv,      \* the inputs of the last invocation
    out,      \* what the last invocation produced
    phase     \* "setup": the filesystem is being laid out; "ready"; "done"

vars == <<tree, targets, inv, out, phase>>

\* ------------------------------------------------------------------ bounds

MaxDepth == 2
MaxEntries == 3
MaxLines == 2
MaxEnvs == 2

Dirs == 0 .. MaxDepth
\* The directory outside the chain (an explicit --config may point anywhere).
Elsewhere == MaxDepth + 1

\* ------------------------------------------------------------ file names
\* A file name is the sequence of its dot-separated parts.

YamlName == <<"uv-toolbox", "yaml">>
JsonName == <<"uv-toolbox", "json">>
TomlName == <<"uv-toolbox", "toml">>
PyprojectName == <<"pyproject", "toml">>
GitName == <<"", "git">>

config_names == <<YamlName, JsonName, TomlName>>

DedicatedNames == {config_names[i] : i \in 1 .. Len(config_names)}
RecognizedNames == DedicatedNames \cup {PyprojectName}
EntryNames == RecognizedNames \cup {GitName}

\* ------------------------------------------------------------ filesystem
\* An entry is absent, a regular file or a directory.  A regular file has a
\* body; the body matters for pyproject.toml only: whether it can be read,
\* decodes as text, parses as TOML, and what its `tool` key and the
\* `uv-toolbox` key under it hold.

Body(readable, decodable, wellformed, tool, section) ==
    [readable |-> readable, decodable |-> decodable, wellformed |-> wellformed,
     tool |-> tool, section |-> section]

ValidBody == Body(TRUE, TRUE, TRUE, "table", "table")
UnreadableBody == Body(FALSE, TRUE, TRUE, "table", "table")
UndecodableBody == Body(TRUE, FALSE, FALSE, "missing", "missing")
MalformedBody == Body(TRUE, TRUE, FALSE, "missing", "missing")
NoToolBody == Body(TRUE, TRUE, TRUE, "missing", "missing")
ToolScalarBody == Body(TRUE, TRUE, TRUE, "scalar", "missing")
NoSectionBody == Body(TRUE, TRUE, TRUE, "table", "missing")
SectionScalarBody == Body(TRUE, TRUE, TRUE, "table", "scalar")

\* A well-formed document whose settings keys sit at the document root.
RootBody == NoToolBody

PyBodies ==
    {ValidBody, UnreadableBody, UndecodableBody, MalformedBody, NoToolBody,
     ToolScalarBody, NoSectionBody, SectionScalarBody}

Absent == [kind |-> "absent", body |-> ValidBody]
Directory == [kind |-> "dir", body |-> ValidBody]
File(body) == [kind |-> "file", body |-> body]

EntriesFor(name) ==
    IF name = PyprojectName
    THEN {Directory} \cup {File(b) : b \in PyBodies}
    ELSE {Directory, File(RootBody)}

\* Path.exists() and Path.is_file()
exists(e) == e.kind # "absent"
is_file(e) == e.kind = "file"

EmptyDir == [n \in EntryNames |-> Absent]
EmptyTree == [d \in Dirs |-> EmptyDir]

PathOf(d, name) == [dir |-> d, name |-> name]

\* The entry a path names: in the chain, or in the directory outside it.
EntryAt(t, tg, p) ==
    IF p.dir \in Dirs
    THEN IF p.name \in EntryNames THEN t[p.dir][p.name] ELSE Absent
    ELSE IF p.name \in DOMAIN tg THEN tg[p.name] ELSE Absent

EntryCount(t) ==
    Cardinality({p \in Dirs \X EntryNames : exists(t[p[1]][p[2]])})

\* ------------------------------------------------------------- discovery

\* "True", "False", or the exception that escapes.
_pyproject_has_uv_toolbox_config(e) ==
    IF ~is_file(e) THEN "False"
    ELSE IF ~e.body.readable THEN "False"
    ELSE IF ~e.body.decodable THEN "UnicodeDecodeError"
    ELSE IF ~e.body.wellformed THEN "False"
    ELSE IF e.body.tool # "table" THEN "False"
    ELSE IF e.body.section = "table" THEN "True" ELSE "False"

Found(p) == [tag |-> "found", path |-> p]
NotFound == [tag |-> "none"]
Raised(err) == [tag |-> "raise", error |-> err]

_check_directory_for_config(t, d) ==
    LET hits == {i \in 1 .. Len(config_names) : exists(t[d][config_names[i]])}
        first == CHOOSE i \in hits : \A j \in hits : i <= j
        pyproject == t[d][PyprojectName]
        has == _pyproject_has_uv_toolbox_config(pyproject)
    IN  IF hits # {} THEN Found(PathOf(d, config_names[first]))
        ELSE IF ~exists(pyproject) THEN NotFound
        ELSE IF has = "True" THEN Found(PathOf(d, PyprojectName))
        ELSE IF has = "False" THEN NotFound
        ELSE Raised(has)

\* The walk over [current, *current.parents]; `seen` lists the directories
\* examined so far, nearest first.
RECURSIVE Walk(_, _, _)
Walk(t, d, seen) ==
    LET config_file == _check_directory_for_config(t, d)
        visited == Append(seen, d)
    IN  IF config_file.tag # "none"
        THEN [result |-> config_file, visited |-> visited]
        ELSE IF exists(t[d][GitName]) \/ d = 0
        THEN [result |-> NotFound, visited |-> visited]
        ELSE Walk(t, d - 1, visited)

_find_config_file(t, start_path) == Walk(t, start_path, <<>>)

\* -------------------------------------------------------- settings fields

Fields == {"venv_path", "default_environment", "show_commands", "environments"}
AllFields == Fields \cup {"config_file"}

None == {}
Some(v) == {v}
TheValue(opt) == CHOOSE v \in opt : TRUE

\* A source is a function from the fields it provides to their values.
NoValues == [f \in {} |-> {}]
Only(d, keys) == [f \in DOMAIN d \cap keys |-> d[f]]

\* A requirement text is a Python str, modelled as the sequence of its
\* pieces: a space, a `#`, a newline, or a requirement specifier.
Space == " "
Hash == "#"
Newline == "\n"
Specifiers == {"ruff", "pkg-9b5942b3867b", "pkg-083164ffed5a"}

\* '\n'.join(lines)
RECURSIVE join(_)
join(lines) ==
    IF lines = <<>> THEN <<>>
    ELSE IF Len(lines) = 1 THEN lines[1]
    ELSE lines[1] \o <<Newline>> \o join(Tail(lines))

\* The text that gives one specifier per line.
Text(words) == join([i \in 1 .. Len(words) |-> <<words[i]>>])

Environment(name, requirements, requirements_file, environment) ==
    [name |-> name, requirements |-> requirements,
     requirements_file |-> requirements_file, environment |-> environment]

InlineEnv(name, words) == Environment(name, Some(Text(words)), None, {})

\* What each source says when it provides a field.  Every source lists
\* environments a, b and c, so that any default_environment is valid with
\* any environments list; the values differ from source to source.
CliValue(f, abs) ==
    CASE f = "venv_path" -> [abs |-> abs, src |-> "cli", at |-> None]
      [] f = "default_environment" -> Some("a")
      [] f = "show_commands" -> TRUE
      [] f = "environments" ->
            <<InlineEnv("a", <<"ruff">>), InlineEnv("b", <<"ruff">>),
              InlineEnv("c", <<"ruff">>)>>

EnvValue(f, abs) ==
    CASE f = "venv_path" -> [abs |-> abs, src |-> "env", at |-> None]
      [] f = "default_environment" -> Some("b")
      [] f = "show_commands" -> FALSE
      [] f = "environments" ->
            <<InlineEnv("a", <<"pkg-083164ffed5a">>), InlineEnv("b", <<"pkg-083164ffed5a">>),
              InlineEnv("c", <<"pkg-083164ffed5a">>)>>

\* The path a config file names under its own `config_file` key.
NamedInFile == PathOf(Elsewhere, <<"named-in-file", "yaml">>)

FileValue(f, abs, p) ==
    CASE f = "venv_path" -> [abs |-> abs, src |-> "file", at |-> Some(p)]
      [] f = "default_environment" -> Some("c")
      [] f = "show_commands" -> TRUE
      [] f = "environments" ->
            <<InlineEnv("a", <<"pkg-083164ffed5a", "ruff">>),
              InlineEnv("b", <<"pkg-083164ffed5a", "ruff">>),
              InlineEnv("c", <<"pkg-083164ffed5a", "ruff">>)>>
      [] f = "config_file" -> Some(NamedInFile)

\* venv_path: Path = Path.home() / '.cache' / 'uv-toolbox'
DefaultVenvPath == [abs |-> TRUE, src |-> "default", at |-> None]

\* ----------------------------------------------------------- file formats

\* str.lower() on the name parts the model uses.
Lower(s) ==
    CASE s = "YAML" -> "yaml"
      [] s = "YML" -> "yml"
      [] s = "JSON" -> "json"
      [] s = "TOML" -> "toml"
      [] s = "PyProject" -> "pyproject"
      [] OTHER -> s

\* Path.suffix: the text from the last dot on, when that dot is neither the
\* first nor the last character of the name; here without its dot.
suffix(name) ==
    IF /\ Len(name) >= 2
       /\ name[Len(name)] # ""
       /\ ~(Len(name) = 2 /\ name[1] = "")
    THEN name[Len(name)]
    ELSE ""

\* A mutation of _config_file_source: pyproject.toml is not told apart from
\* the other .toml files.
_config_file_source_by_suffix(config_file) ==
    LET sfx == Lower(suffix(config_file.name))
    IN  IF sfx \in {"yaml", "yml"} THEN "yaml"
        ELSE IF sfx = "json" THEN "json"
        ELSE IF sfx = "toml" THEN "toml"
        ELSE "ValueError"

\* The kind of source built for a config file, or "ValueError".
_config_file_source(config_file) ==
    IF config_file.name = PyprojectName THEN "pyproject"
    ELSE LET sfx == Lower(suffix(config_file.name))
         IN  IF sfx \in {"yaml", "yml"} THEN "yaml"
             ELSE IF sfx = "json" THEN "json"
             ELSE IF sfx = "toml" THEN "toml"
             ELSE "ValueError"

\* What a file source of the given kind reads from entry e at path p: the
\* provided fields, or why reading fails.  A path that is no regular file
\* yields nothing; a pyproject source reads the tool.uv-toolbox table, the
\* others the document root (where a `tool` key is an unknown key).
ReadSource(kind, e, p, keys, abs) ==
    LET values == [f \in keys |-> FileValue(f, abs, p)]
    IN  IF ~is_file(e) THEN [tag |-> "ok", data |-> NoValues, extra |-> FALSE]
        ELSE IF ~(e.body.readable /\ e.body.decodable /\ e.body.wellformed)
        THEN [tag |-> "raise", data |-> NoValues, extra |-> FALSE]
        ELSE IF kind = "pyproject"
        THEN [tag |-> "ok",
              data |-> IF e.body.tool = "table" /\ e.body.section = "table"
                       THEN values ELSE NoValues,
              extra |-> FALSE]
        ELSE IF e.body.tool = "missing"
        THEN [tag |-> "ok", data |-> values, extra |-> FALSE]
        ELSE [tag |-> "ok", data |-> NoValues, extra |-> TRUE]

\* ------------------------------------------------------- merging sources

\* The inputs of an invocation.  flag: --config; envCfg: the variable
\* UV_TOOLBOX_CONFIG_FILE (unset, set to the empty string, or set to a path);
\* cli: the settings fields given as explicit arguments (the others are passed
\* as None); environ: the fields set as UV_TOOLBOX_<FIELD>; fileKeys: the
\* keys every config file holds.  The *Abs flags say whether the venv_path a
\* source gives is absolute.
Inputs(op, cwd, flag, envCfg, cli, cliAbs, environ, envAbs, fileKeys, fileAbs) ==
    [op |-> op, cwd |-> cwd, flag |-> flag, envCfg |-> envCfg,
     cli |-> cli, cliAbs |-> cliAbs, environ |-> environ, envAbs |-> envAbs,
     fileKeys |-> fileKeys, fileAbs |-> fileAbs]

Unset == [set |-> FALSE, path |-> None]
SetEmpty == [set |-> TRUE, path |-> None]
SetTo(p) == [set |-> TRUE, path |-> Some(p)]

NoInputs == Inputs("none", 0, None, Unset, {}, FALSE, {}, FALSE, {}, FALSE)

\* The keyword arguments typer hands over: every option, None when not given.
overrides(i) ==
    [f \in Fields |-> IF f \in i.cli THEN Some(CliValue(f, i.cliAbs)) ELSE None]

_filter_nulls(d) == [f \in {k \in DOMAIN d : d[k] # None} |-> TheValue(d[f])]

\* ctx.obj, set by the root callback.
ctx_obj(i) == IF i.flag = None THEN NoValues ELSE [config_file |-> i.flag]

\* os.getenv / os.environ.get of UV_TOOLBOX_CONFIG_FILE, as a truth value
\* would see it: the empty string counts as not given.
getenv_config_file(i) == IF i.envCfg.set THEN i.envCfg.path ELSE None

\* The environment-variable source: UV_TOOLBOX_<FIELD> for every field.
env_settings(i) ==
    [f \in i.environ \cup (IF i.envCfg.path # None THEN {"config_file"} ELSE {})
       |-> IF f = "config_file" THEN i.envCfg.path ELSE EnvValue(f, i.envAbs)]

\* The sources in the order given win in that order: a field takes the value
\* of the first source that provides it.
Merge(sources) ==
    [f \in UNION {DOMAIN sources[k] : k \in 1 .. Len(sources)} |->
        LET first == CHOOSE k \in 1 .. Len(sources) :
                        /\ f \in DOMAIN sources[k]
                        /\ \A j \in 1 .. (k - 1) : f \notin DOMAIN sources[j]
        IN  sources[first][f]]

\* What the file holds under its keys: the values an input states
\* (file_values), FileValue for the other keys.
FileHolds(read, held) ==
    [read EXCEPT !.data =
        [f \in DOMAIN read.data |->
            IF f \in DOMAIN held THEN held[f] ELSE read.data[f]]]

\* The keys the config file at p holds: those the input states, of which
\* the files of the input's `lean` directory hold `environments` only.
FileKeys(i, p) ==
    IF "lean" \in DOMAIN i /\ p.dir = i.lean
    THEN i.fileKeys \cap {"environments"} ELSE i.fileKeys

\* What a config file source yields.
FileSource(t, tg, i, kind, p) ==
    FileHolds(ReadSource(kind, EntryAt(t, tg, p), p, FileKeys(i, p), i.fileAbs),
              IF "file_values" \in DOMAIN i THEN i.file_values ELSE NoValues)

Provided(data) == [tag |-> "ok", data |-> data, extra |-> FALSE]

\* A mutation of settings_customise_sources: the environment variables are
\* listed before the explicit arguments.
settings_customise_sources_env_first(t, tg, i, init_kwargs) ==
    LET given == IF "config_file" \in DOMAIN init_kwargs
                 THEN init_kwargs["config_file"] ELSE None
        config_file == IF given = None THEN getenv_config_file(i) ELSE given
        init_settings == Provided(init_kwargs)
        env == Provided(env_settings(i))
    IN  IF config_file # None
        THEN LET p == TheValue(config_file)
                 kind == _config_file_source(p)
             IN  IF kind = "ValueError"
                 THEN [tag |-> "raise", error |-> "ValueError", format |-> "none"]
                 ELSE [tag |-> "ok", format |-> kind,
                       sources |-> <<env, init_settings,
                                     FileSource(t, tg, i, kind, p)>>]
        ELSE [tag |-> "ok", format |-> "defaults",
              sources |-> <<env, init_settings,
                            FileSource(t, tg, i, "yaml", PathOf(i.cwd, YamlName)),
                            FileSource(t, tg, i, "json", PathOf(i.cwd, JsonName)),
                            FileSource(t, tg, i, "toml", PathOf(i.cwd, TomlName)),
                            FileSource(t, tg, i, "pyproject",
                                       PathOf(i.cwd, PyprojectName))>>]

\* A mutation of settings_customise_sources: the recognized files of the
\* working directory are read after the governing file.
settings_customise_sources_with_working_directory(t, tg, i, init_kwargs) ==
    LET given == IF "config_file" \in DOMAIN init_kwargs
                 THEN init_kwargs["config_file"] ELSE None
        config_file == IF given = None THEN getenv_config_file(i) ELSE given
        init_settings == Provided(init_kwargs)
        env == Provided(env_settings(i))
        working == <<FileSource(t, tg, i, "yaml", PathOf(i.cwd, YamlName)),
                     FileSource(t, tg, i, "json", PathOf(i.cwd, JsonName)),
                     FileSource(t, tg, i, "toml", PathOf(i.cwd, TomlName)),
                     FileSource(t, tg, i, "pyproject",
                                PathOf(i.cwd, PyprojectName))>>
    IN  IF config_file # None
        THEN LET p == TheValue(config_file)
                 kind == _config_file_source(p)
             IN  IF kind = "ValueError"
                 THEN [tag |-> "raise", error |-> "ValueError", format |-> "none"]
                 ELSE [tag |-> "ok", format |-> kind,
                       sources |-> <<init_settings, env,
                                     FileSource(t, tg, i, kind, p)>> \o working]
        ELSE [tag |-> "ok", format |-> "defaults",
              sources |-> <<init_settings, env>> \o working]

\* The sources of one construction, highest precedence first, or the error
\* raised while they are built: (init, env, the one config file) when a
\* config file is known, else (init, env, and the four recognized files of
\* the working directory).
settings_customise_sources(t, tg, i, init_kwargs) ==
    LET given == IF "config_file" \in DOMAIN init_kwargs
                 THEN init_kwargs["config_file"] ELSE None
        config_file == IF given = None THEN getenv_config_file(i) ELSE given
        init_settings == Provided(init_kwargs)
        env == Provided(env_settings(i))
    IN  IF config_file # None
        THEN LET p == TheValue(config_file)
                 kind == _config_file_source(p)
             IN  IF kind = "ValueError"
                 THEN [tag |-> "raise", error |-> "ValueError", format |-> "none"]
                 ELSE [tag |-> "ok", format |-> kind,
                       sources |-> <<init_settings, env,
                                     FileSource(t, tg, i, kind, p)>>]
        ELSE [tag |-> "ok", format |-> "defaults",
              sources |-> <<init_settings, env,
                            FileSource(t, tg, i, "yaml", PathOf(i.cwd, YamlName)),
                            FileSource(t, tg, i, "json", PathOf(i.cwd, JsonName)),
                            FileSource(t, tg, i, "toml", PathOf(i.cwd, TomlName)),
                            FileSource(t, tg, i, "pyproject",
                                       PathOf(i.cwd, PyprojectName))>>]

\* ------------------------------------------------------------ validation

\* bool(self.requirements) ^ bool(self.requirements_file): a string is true
\* when it is not empty (the empty text is one line without atoms), a path
\* always.
check_requirements(env) ==
    (env.requirements # None /\ TheValue(env.requirements) # <<>>)
        # (env.requirements_file # None)

ensure_unique_env_names(environments) ==
    \A a, b \in 1 .. Len(environments) :
        environments[a].name = environments[b].name => a = b

\* A mutation of ensure_valid_default_environment: the names are compared
\* without regard to case.
ensure_valid_default_environment_ignoring_case(default_environment, environments) ==
    LET Fold(n) == IF n = "A" THEN "a" ELSE n
    IN  default_environment # None =>
            \E k \in 1 .. Len(environments) :
                Fold(environments[k].name) = Fold(TheValue(default_environment))

ensure_valid_default_environment(default_environment, environments) ==
    default_environment # None =>
        \E k \in 1 .. Len(environments) :
            environments[k].name = TheValue(default_environment)

Settings(config_file, venv_path, default_environment, show_commands, environments) ==
    [config_file |-> config_file, venv_path |-> venv_path,
     default_environment |-> default_environment,
     show_commands |-> show_commands, environments |-> environments]

Get(state, f, default) == IF f \in DOMAIN state THEN state[f] ELSE default

\* The result of a construction: status "ok" with the Settings, or the error.
Built(status, settings, format) ==
    [status |-> status, settings |-> settings, format |-> format]

\* UvToolboxSettings.model_validate(init_kwargs): build the sources, merge
\* them, then validate the fields and run the model validators.
model_validate(t, tg, i, init_kwargs) ==
    LET built == settings_customise_sources(t, tg, i, init_kwargs)
    IN  IF built.tag = "raise" THEN Built(built.error, None, built.format)
        ELSE
        LET sources == built.sources
            bad == \E k \in 1 .. Len(sources) : sources[k].tag = "raise"
            extra == \E k \in 1 .. Len(sources) : sources[k].extra
            state == Merge([k \in 1 .. Len(sources) |-> sources[k].data])
            environments == Get(state, "environments", <<>>)
            default_environment == Get(state, "default_environment", None)
        IN  IF bad THEN Built("ReadError", None, built.format)
            ELSE IF \/ extra
                    \/ Len(environments) < 1
                    \/ \E k \in 1 .. Len(environments) :
                           ~check_requirements(environments[k])
                    \/ ~ensure_unique_env_names(environments)
                    \/ ~ensure_valid_default_environment(default_environment,
                                                         environments)
            THEN Built("ValidationError", None, built.format)
            ELSE Built("ok",
                       Some(Settings(Get(state, "config_file", None),
                                     Get(state, "venv_path", DefaultVenvPath),
                                     default_environment,
                                     Get(state, "show_commands", FALSE),
                                     environments)),
                       built.format)

\* ---------------------------------------------------------- from_context

Outcome(status, settings, config_file, visited, searched, format, candidates) ==
    [status |-> status, settings |-> settings, config_file |-> config_file,
     visited |-> visited, searched |-> searched, format |-> format,
     candidates |-> candidates]

NoOutcome == Outcome("none", None, None, <<>>, FALSE, "none", <<>>)

\* The explicit override _verify_config_file sees:
\* cli_args.get('config_file') or os.getenv('UV_TOOLBOX_CONFIG_FILE').
config_override(cli_args, i) ==
    IF "config_file" \in DOMAIN cli_args
    THEN cli_args["config_file"] ELSE getenv_config_file(i)

\* _verify_config_file: the governing file stored in cli_args, or the error.
_verify_config_file(t, tg, i, cli_args) ==
    LET config_file == config_override(cli_args, i)
        found_config == _find_config_file(t, i.cwd)
    IN  IF config_file # None
        THEN IF ~exists(EntryAt(t, tg, TheValue(config_file)))
             THEN [status |-> "ConfigFileNotFoundError", config_file |-> None,
                   visited |-> <<>>, searched |-> FALSE, candidates |-> <<>>]
             ELSE [status |-> "ok", config_file |-> config_file,
                   visited |-> <<>>, searched |-> FALSE, candidates |-> <<>>]
        ELSE IF found_config.result.tag = "found"
        THEN [status |-> "ok", config_file |-> Some(found_config.result.path),
              visited |-> found_config.visited, searched |-> TRUE,
              candidates |-> <<>>]
        ELSE IF found_config.result.tag = "raise"
        THEN [status |-> found_config.result.error, config_file |-> None,
              visited |-> found_config.visited, searched |-> TRUE,
              candidates |-> <<>>]
        ELSE [status |-> "MissingConfigFileError", config_file |-> None,
              visited |-> found_config.visited, searched |-> TRUE,
              candidates |-> <<PathOf(i.cwd, YamlName), PathOf(i.cwd, JsonName),
                               PathOf(i.cwd, TomlName),
                               PathOf(i.cwd, PyprojectName)>>]

from_context(t, tg, i) ==
    LET cli_args == ctx_obj(i) @@ _filter_nulls(overrides(i))
        verified == _verify_config_file(t, tg, i, cli_args)
        stored == [config_file |-> verified.config_file] @@ cli_args
        built == model_validate(t, tg, i, stored)
    IN  IF verified.status # "ok"
        THEN Outcome(verified.status, None, None, verified.visited,
                     verified.searched, "none", verified.candidates)
        ELSE Outcome(built.status, built.settings, verified.config_file,
                     verified.visited, verified.searched, built.format, <<>>)

\* --------------------------------------------------------- resolved paths

\* dir / venv_path: an absolute venv_path stands by itself.
Join(d, venv_path) ==
    IF venv_path.abs THEN [anchor |-> None, rel |-> venv_path]
    ELSE [anchor |-> Some(d), rel |-> venv_path]

\* config_file.parent
parent(p) == p.dir

\* A mutation of resolved_venv_path: a relative venv_path is resolved from
\* the working directory.
resolved_venv_path_from_cwd(settings, cwd) ==
    IF settings.venv_path.abs THEN [anchor |-> None, rel |-> settings.venv_path]
    ELSE Join(cwd, settings.venv_path)

\* UvToolboxSettings.resolved_venv_path, for a process whose working
\* directory is cwd.
resolved_venv_path(settings, cwd) ==
    IF settings.venv_path.abs THEN [anchor |-> None, rel |-> settings.venv_path]
    ELSE IF settings.config_file = None THEN Join(cwd, settings.venv_path)
    ELSE Join(parent(TheValue(settings.config_file)), settings.venv_path)

\* ------------------------------------------- content-addressed identity


\* The pieces in the order Python compares the strings they start
\* (code points: space 32, `#` 35, `p` 112, `r` 114; `0` before `9`).
CodeOrder == <<Space, Hash, "pkg-083164ffed5a", "pkg-9b5942b3867b", "ruff">>
Rank(a) == CHOOSE k \in DOMAIN CodeOrder : CodeOrder[k] = a

\* str.strip(): whitespace, newlines included, removed at both ends.
IsSpace(a) == a \in {Space, Newline}

RECURSIVE lstrip(_)
lstrip(s) == IF s # <<>> /\ IsSpace(Head(s)) THEN lstrip(Tail(s)) ELSE s

RECURSIVE rstrip(_)
rstrip(s) ==
    IF s # <<>> /\ IsSpace(s[Len(s)]) THEN rstrip(SubSeq(s, 1, Len(s) - 1)) ELSE s

strip(s) == rstrip(lstrip(s))

\* str.split('\n')
RECURSIVE split(_)
split(s) ==
    IF \A k \in DOMAIN s : s[k] # Newline THEN <<s>>
    ELSE LET k == CHOOSE j \in DOMAIN s :
                    s[j] = Newline /\ \A h \in 1 .. j - 1 : s[h] # Newline
         IN  <<SubSeq(s, 1, k - 1)>> \o split(SubSeq(s, k + 1, Len(s)))

\* str.startswith('#')
startswith_hash(line) == line # <<>> /\ Head(line) = Hash

\* a < b for Python strings
RECURSIVE str_less(_, _)
str_less(a, b) ==
    IF b = <<>> THEN FALSE
    ELSE IF a = <<>> THEN TRUE
    ELSE IF Head(a) = Head(b) THEN str_less(Tail(a), Tail(b))
    ELSE Rank(Head(a)) < Rank(Head(b))

\* sorted(lines): a stable sort that keeps repeated lines.
RECURSIVE insert_sorted(_, _)
insert_sorted(line, lines) ==
    IF lines = <<>> THEN <<line>>
    ELSE IF str_less(Head(lines), line)
         THEN <<Head(lines)>> \o insert_sorted(line, Tail(lines))
         ELSE <<line>> \o lines

RECURSIVE sorted(_)
sorted(lines) ==
    IF lines = <<>> THEN <<>> ELSE insert_sorted(Head(lines), sorted(Tail(lines)))

\* The lines _normalize_requirements keeps: stripped, neither empty nor
\* comments.
KeptLines(req) ==
    LET lines == split(strip(req))
        stripped == [k \in DOMAIN lines |-> strip(lines[k])]
        Keep(line) == line # <<>> /\ ~startswith_hash(line)
    IN  SelectSeq(stripped, Keep)

\* A mutation of _normalize_requirements: the kept lines are not sorted.
_normalize_requirements_unsorted(req) == join(KeptLines(req))

\* UvToolboxEnvironment._normalize_requirements
_normalize_requirements(req) == join(sorted(KeptLines(req)))

\* hashlib.sha256(data.encode()).hexdigest()[:12], tabulated: each value is
\* the first 12 hex digits of the SHA-256 digest of the text on its left.
sha256_hexdigest_12(data) ==
    CASE data = <<>> -> "e3b0c44298fc"
      [] data = <<"pkg-083164ffed5a">> -> "80732c1ecfab"
      [] data = <<"pkg-9b5942b3867b">> -> "80732c1ecfab"
      [] data = <<"ruff">> -> "acadbba99747"
      [] data = <<"pkg-083164ffed5a", "\n", "pkg-083164ffed5a">> -> "ed7e18e77e72"
      [] data = <<"pkg-083164ffed5a", "\n", "pkg-9b5942b3867b">> -> "4a8f4d06132c"
      [] data = <<"pkg-083164ffed5a", "\n", "ruff">> -> "fa4f0d44d497"
      [] data = <<"pkg-9b5942b3867b", "\n", "pkg-083164ffed5a">> -> "42404bc158ae"
      [] data = <<"pkg-9b5942b3867b", "\n", "pkg-9b5942b3867b">> -> "9b9416db6682"
      [] data = <<"pkg-9b5942b3867b", "\n", "ruff">> -> "0e94b028c5e1"
      [] data = <<"ruff", "\n", "pkg-083164ffed5a">> -> "c66da3c5e1b4"
      [] data = <<"ruff", "\n", "pkg-9b5942b3867b">> -> "b40fdef95cff"
      [] data = <<"ruff", "\n", "ruff">> -> "fccacf5aaf9b"
      [] data = <<"pkg-083164ffed5a", "\n", "pkg-083164ffed5a", "\n", "pkg-083164ffed5a">> -> "6719d8fed983"
      [] data = <<"pkg-083164ffed5a", "\n", "pkg-083164ffed5a", "\n", "pkg-9b5942b3867b">> -> "14624a25ae2a"
      [] data = <<"pkg-083164ffed5a", "\n", "pkg-083164ffed5a", "\n", "ruff">> -> "222b591ce063"
      [] data = <<"pkg-083164ffed5a", "\n", "pkg-9b5942b3867b", "\n", "pkg-083164ffed5a">> -> "660d4dfdd365"
      [] data = <<"pkg-083164ffed5a", "\n", "pkg-9b5942b3867b", "\n", "pkg-9b5942b3867b">> -> "5f9788c4b6fc"
      [] data = <<"pkg-083164ffed5a", "\n", "pkg-9b5942b3867b", "\n", "ruff">> -> "521f746313fc"
      [] data = <<"pkg-083164ffed5a", "\n", "ruff", "\n", "pkg-083164ffed5a">> -> "ae8369f5a94d"
      [] data = <<"pkg-083164ffed5a", "\n", "ruff", "\n", "pkg-9b5942b3867b">> -> "2604c40876fc"
      [] data = <<"pkg-083164ffed5a", "\n", "ruff", "\n", "ruff">> -> "471f12666a1d"
      [] data = <<"pkg-9b5942b3867b", "\n", "pkg-083164ffed5a", "\n", "pkg-083164ffed5a">> -> "02673b1fb113"
      [] data = <<"pkg-9b5942b3867b", "\n", "pkg-083164ffed5a", "\n", "pkg-9b5942b3867b">> -> "01671ab202a6"
      [] data = <<"pkg-9b5942b3867b", "\n", "pkg-083164ffed5a", "\n", "ruff">> -> "fd58fdc17a07"
      [] data = <<"pkg-9b5942b3867b", "\n", "pkg-9b5942b3867b", "\n", "pkg-083164ffed5a">> -> "437fb42a0027"
      [] data = <<"pkg-9b5942b3867b", "\n", "pkg-9b5942b3867b", "\n", "pkg-9b5942b3867b">> -> "c8c940b72ad7"
      [] data = <<"pkg-9b5942b3867b", "\n", "pkg-9b5942b3867b", "\n", "ruff">> -> "8e04017b6509"
      [] data = <<"pkg-9b5942b3867b", "\n", "ruff", "\n", "pkg-083164ffed5a">> -> "2377aed26e7d"
      [] data = <<"pkg-9b5942b3867b", "\n", "ruff", "\n", "pkg-9b5942b3867b">> -> "06f84c78fe42"
      [] data = <<"pkg-9b5942b3867b", "\n", "ruff", "\n", "ruff">> -> "7f57ed5e7816"
      [] data = <<"ruff", "\n", "pkg-083164ffed5a", "\n", "pkg-083164ffed5a">> -> "4b24a94d0db4"
      [] data = <<"ruff", "\n", "pkg-083164ffed5a", "\n", "pkg-9b5942b3867b">> -> "151b521838a5"
      [] data = <<"ruff", "\n", "pkg-083164ffed5a", "\n", "ruff">> -> "4768692beaef"
      [] data = <<"ruff", "\n", "pkg-9b5942b3867b", "\n", "pkg-083164ffed5a">> -> "c650a9011936"
      [] data = <<"ruff", "\n", "pkg-9b5942b3867b", "\n", "pkg-9b5942b3867b">> -> "18448064f79f"
      [] data = <<"ruff", "\n", "pkg-9b5942b3867b", "\n", "ruff">> -> "b7c651987d86"
      [] data = <<"ruff", "\n", "ruff", "\n", "pkg-083164ffed5a">> -> "fb424fd1bf2f"
      [] data = <<"ruff", "\n", "ruff", "\n", "pkg-9b5942b3867b">> -> "fc83befc65bf"
      [] data = <<"ruff", "\n", "ruff", "\n", "ruff">> -> "25630d029d4c"

\* Path.read_text() of a requirements file.
read_text(e) == e.body

\* UvToolboxEnvironment._get_requirements_hash
_get_requirements_hash(env, t, tg) ==
    IF env.requirements # None /\ TheValue(env.requirements) # <<>>
    THEN sha256_hexdigest_12(_normalize_requirements(TheValue(env.requirements)))
    ELSE sha256_hexdigest_12(_normalize_requirements(
             read_text(EntryAt(t, tg, TheValue(env.requirements_file)))))

\* A mutation of UvToolboxEnvironment.venv_path: the directory is named
\* after the environment as well as its requirements.
env_venv_path_per_name(env, settings, cwd, t, tg) ==
    [base |-> resolved_venv_path(settings, cwd),
     id |-> <<env.name, _get_requirements_hash(env, t, tg)>>]

\* UvToolboxEnvironment.venv_path: settings.resolved_venv_path / req_hash
env_venv_path(env, settings, cwd, t, tg) ==
    [base |-> resolved_venv_path(settings, cwd),
     id |-> _get_requirements_hash(env, t, tg)]

\* ---------------------------------------------------------------- actions

\* The user lays out the filesystem, one entry at a time.
CreateEntry ==
    /\ phase = "setup"
    /\ EntryCount(tree) < MaxEntries
    /\ \E d \in Dirs, n \in EntryNames :
         /\ ~exists(tree[d][n])
         /\ \E e \in EntriesFor(n) :
              tree' = [tree EXCEPT ![d][n] = e]
    /\ UNCHANGED <<targets, inv, out, phase>>

\* A command run from directory cwd without --config and with
\* UV_TOOLBOX_CONFIG_FILE unset (or empty): the config file is discovered.
\* Every config file holds an `environments` key.
InvokeDiscover ==
    /\ phase = "setup"
    /\ \E cwd \in Dirs, envCfg \in {Unset, SetEmpty} :
         LET i == Inputs("from_context", cwd, None, envCfg, {}, FALSE, {}, FALSE,
                         {"environments"}, FALSE)
         IN  /\ inv' = i
             /\ out' = from_context(tree, targets, i)
    /\ phase' = "done"
    /\ UNCHANGED <<tree, targets>>

InitDiscovery ==
    /\ tree = EmptyTree
    /\ targets = [n \in {} |-> Absent]
    /\ inv = NoInputs
    /\ out = NoOutcome
    /\ phase = "setup"

NextDiscovery == CreateEntry \/ InvokeDiscover

SpecDiscovery == InitDiscovery /\ [][NextDiscovery]_vars

\* ------------------------------------------------- discovery: properties

\* A recognized config file in directory d: a regular file with one of the
\* three dedicated names, or a regular file pyproject.toml that parses as
\* TOML and holds a table tool.uv-toolbox.
RecognizedFile(t, d, n) ==
    /\ n \in RecognizedNames
    /\ is_file(t[d][n])
    /\ n = PyprojectName => t[d][n].body = ValidBody

HoldsConfig(t, d) == \E n \in RecognizedNames : RecognizedFile(t, d, n)

\* The recognized names in their fixed order.
NameOrder == Append(config_names, PyprojectName)

FirstRecognized(t, d) ==
    LET k == CHOOSE i \in 1 .. Len(NameOrder) :
                /\ RecognizedFile(t, d, NameOrder[i])
                /\ \A j \in 1 .. (i - 1) : ~RecognizedFile(t, d, NameOrder[j])
    IN  PathOf(d, NameOrder[k])

Discovered == phase = "done" /\ inv.op = "from_context" /\ out.searched

\* The .git boundaries at or above the working directory, and the nearest.
Boundaries(t, cwd) == {d \in 0 .. cwd : exists(t[d][GitName])}
Boundary(t, cwd) == CHOOSE b \in Boundaries(t, cwd) : \A d \in Boundaries(t, cwd) : d <= b

\* No entry with a dedicated name is a directory and no pyproject.toml holds
\* bytes that do not decode: the trees on which exists() and is_file() agree
\* and reading pyproject.toml raises nothing that escapes.
PlainTree(t) ==
    \A d \in Dirs :
        /\ \A n \in DedicatedNames : t[d][n].kind # "dir"
        /\ t[d][PyprojectName].kind = "file" => t[d][PyprojectName].body.decodable

\* C1: discovery started in D returns the config file of the nearest
\* directory A (D or an ancestor) that contains a recognized config file,
\* when no directory from D up to but excluding A contains a recognized
\* config file or a .git entry.
C1_NearestGoverningFile ==
    Discovered =>
        \A A \in 0 .. inv.cwd :
            ( /\ HoldsConfig(tree, A)
              /\ \A d \in (A + 1) .. inv.cwd :
                    ~HoldsConfig(tree, d) /\ ~exists(tree[d][GitName]) )
            => /\ out.config_file # None
               /\ TheValue(out.config_file).dir = A
               /\ RecognizedFile(tree, A, TheValue(out.config_file).name)

\* C1 on plain trees: there the nearest governing file is returned.
NearestOnPlainTrees == PlainTree(tree) => C1_NearestGoverningFile

\* C2: the walk examines the starting directory and its ancestors only up to
\* and including the first directory with a .git entry; that directory is
\* still checked; nothing above it is returned; and when no config file is
\* found by then, discovery fails with the no-config-found error.
C2_StopsAtGitBoundary ==
    (Discovered /\ Boundaries(tree, inv.cwd) # {}) =>
        LET b == Boundary(tree, inv.cwd)
        IN  /\ \A k \in 1 .. Len(out.visited) : out.visited[k] >= b
            /\ out.config_file # None => TheValue(out.config_file).dir >= b
            /\ (HoldsConfig(tree, b)
                    /\ \A d \in (b + 1) .. inv.cwd : ~HoldsConfig(tree, d))
                => out.config_file # None /\ TheValue(out.config_file).dir = b
            /\ (\A d \in b .. inv.cwd : ~HoldsConfig(tree, d))
                => out.status = "MissingConfigFileError"

\* C2 on plain trees.
BoundaryOnPlainTrees == PlainTree(tree) => C2_StopsAtGitBoundary

\* C3: in a directory with several recognized config files discovery
\* returns the first in the order yaml, json, toml, pyproject.toml; and a
\* recognized config file in a nearer directory wins over any in an ancestor.
C3_FixedOrderNearestWins ==
    Discovered =>
        /\ HoldsConfig(tree, inv.cwd)
            => out.config_file = Some(FirstRecognized(tree, inv.cwd))
        /\ \A d \in 0 .. inv.cwd :
              (HoldsConfig(tree, d) /\ out.config_file # None)
                  => TheValue(out.config_file).dir >= d

\* C3 on plain trees.
OrderOnPlainTrees == PlainTree(tree) => C3_FixedOrderNearestWins

\* The tree without the pyproject.toml of directory d.
WithoutPyproject(t, d) == [t EXCEPT ![d][PyprojectName] = Absent]

\* C4: a pyproject.toml is returned only if it parses as TOML and holds a
\* table tool.uv-toolbox; one that does not is treated as absent: discovery
\* ends as it would without that file, and never in an error raised while
\* reading it.
C4_PyprojectAcceptedOnlyWithTable ==
    Discovered =>
        /\ (out.config_file # None
                /\ TheValue(out.config_file).name = PyprojectName)
            => RecognizedFile(tree, TheValue(out.config_file).dir, PyprojectName)
        /\ \A d \in 0 .. inv.cwd :
              (is_file(tree[d][PyprojectName])
                    /\ ~RecognizedFile(tree, d, PyprojectName))
              => LET other == from_context(WithoutPyproject(tree, d), targets, inv)
                 IN  /\ out.status = other.status
                     /\ out.config_file = other.config_file

\* C4 on plain trees.
PyprojectOnPlainTrees == PlainTree(tree) => C4_PyprojectAcceptedOnlyWithTable

\* ------------------------------------------------- explicit config files

\* Names an explicit override may carry.
OverrideNames ==
    {<<"cfg", "yaml">>, <<"cfg", "YML">>, <<"cfg", "json">>, <<"cfg", "toml">>,
     PyprojectName, <<"cfg", "ini">>, <<"cfg">>}

\* What the override path may name: nothing, a directory, a document with
\* its settings at the root, a document with them under tool.uv-toolbox.
OverrideEntries == {Absent, Directory, File(RootBody), File(ValidBody)}

\* A chain directory that holds a loadable uv-toolbox.yaml.
YamlDir == [EmptyDir EXCEPT ![YamlName] = File(RootBody)]

\* A command run with --config and/or UV_TOOLBOX_CONFIG_FILE, each naming an
\* entry of the outside directory.
InvokeOverride ==
    /\ phase = "ready"
    /\ \E cwd \in Dirs, n1 \in DOMAIN targets, useFlag \in BOOLEAN,
          envCfg \in {Unset, SetEmpty} \cup {SetTo(PathOf(Elsewhere, n)) : n \in DOMAIN targets},
          fileKeys \in {{"environments"}, {"environments", "config_file"}} :
         LET flag == IF useFlag THEN Some(PathOf(Elsewhere, n1)) ELSE None
             i == Inputs("from_context", cwd, flag, envCfg, {}, FALSE, {}, FALSE,
                         fileKeys, FALSE)
         IN  /\ useFlag \/ envCfg.path # None
             /\ inv' = i
             /\ out' = from_context(tree, targets, i)
    /\ phase' = "done"
    /\ UNCHANGED <<tree, targets>>

InitOverride ==
    /\ tree \in [Dirs -> {EmptyDir, YamlDir}]
    /\ \E n1, n2 \in OverrideNames, e1, e2 \in OverrideEntries :
          /\ n1 = n2 => e1 = e2
          /\ targets = [n \in {n1, n2} |-> IF n = n1 THEN e1 ELSE e2]
    /\ inv = NoInputs
    /\ out = NoOutcome
    /\ phase = "ready"

NextOverride == InvokeOverride

SpecOverride == InitOverride /\ [][NextOverride]_vars

\* The path an explicit override names: --config, else the variable.
OverridePath(i) == IF i.flag # None THEN i.flag ELSE i.envCfg.path

Overridden ==
    phase = "done" /\ inv.op = "from_context" /\ OverridePath(inv) # None

\* C5: with an explicit override (--config, or UV_TOOLBOX_CONFIG_FILE without
\* the flag) a path that does not exist as a file fails with
\* ConfigFileNotFoundError, never with MissingConfigFileError; a path that
\* exists becomes settings.config_file and no directory search takes place.
C5_ExplicitOverride ==
    Overridden =>
        LET p == TheValue(OverridePath(inv))
            e == EntryAt(tree, targets, p)
        IN  /\ ~is_file(e) => out.status = "ConfigFileNotFoundError"
            /\ out.status # "MissingConfigFileError"
            /\ ~out.searched
            /\ is_file(e) =>
                  /\ out.config_file = Some(p)
                  /\ out.settings # None
                        => TheValue(out.settings).config_file = Some(p)

\* C5 when the override names no directory.
OverrideOnPlainTargets ==
    (Overridden /\ EntryAt(tree, targets, TheValue(OverridePath(inv))).kind # "dir")
        => C5_ExplicitOverride

\* The format each override name is to be read in, by the documented table;
\* the extension is compared without regard to case.
ExpectedFormat(name) ==
    CASE name = PyprojectName -> "pyproject"
      [] name \in {<<"cfg", "yaml">>, <<"cfg", "YML">>} -> "yaml"
      [] name = <<"cfg", "json">> -> "json"
      [] name = <<"cfg", "toml">> -> "toml"
      [] OTHER -> "unsupported"

\* C7: an existing override named pyproject.toml is read from its
\* tool.uv-toolbox table, .yaml/.yml as YAML, .json as JSON, any other .toml
\* from the document root; any other extension fails at once with the
\* unsupported-extension ValueError, no Settings is produced and no other
\* file is read.
C7_FormatDispatch ==
    Overridden =>
        LET p == TheValue(OverridePath(inv))
            e == EntryAt(tree, targets, p)
            expected == ExpectedFormat(p.name)
        IN  exists(e) =>
              IF expected = "unsupported"
              THEN out.status = "ValueError" /\ out.settings = None
              ELSE /\ out.format = expected
                   /\ out.status # "ValueError"
                   /\ is_file(e) =>
                        (out.settings # None <=>
                            IF expected = "pyproject" THEN e.body = ValidBody
                            ELSE e.body = RootBody)

\* An existing file with an unsupported extension is rejected although the
\* working directory holds a loadable uv-toolbox.yaml.
C7_Witness ==
    /\ Overridden
    /\ TheValue(OverridePath(inv)).name = <<"cfg", "ini">>
    /\ is_file(EntryAt(tree, targets, TheValue(OverridePath(inv))))
    /\ tree[inv.cwd] = YamlDir
    /\ out.status = "ValueError"

\* A pyproject.toml override is read from its tool.uv-toolbox table.
PyprojectOverrideLoaded ==
    /\ Overridden
    /\ TheValue(OverridePath(inv)).name = PyprojectName
    /\ out.format = "pyproject" /\ out.settings # None

\* ------------------------------------------------------ layered sources

\* The choices of one source: which fields it gives, and whether the
\* venv_path it gives is absolute.
SourceChoices(fields) ==
    {c \in [keys : SUBSET fields, abs : BOOLEAN] : c.abs => "venv_path" \in c.keys}

\* A command run without an explicit config file from a directory at or below
\* the one that holds the config file, with any explicit arguments, any
\* UV_TOOLBOX_<FIELD> variables and any keys in the config file.
InvokeWithSources ==
    /\ phase = "ready"
    /\ \E cwd \in Dirs, cli \in SourceChoices(Fields),
          environ \in SourceChoices(Fields), file \in SourceChoices(AllFields) :
         LET i == Inputs("from_context", cwd, None, Unset, cli.keys, cli.abs,
                         environ.keys, environ.abs, file.keys, file.abs)
         IN  /\ \E d \in 0 .. cwd : exists(tree[d][YamlName])
             /\ inv' = i
             /\ out' = from_context(tree, targets, i)
    /\ phase' = "done"
    /\ UNCHANGED <<tree, targets>>

\* UvToolboxSettings.model_validate(payload) called directly, as the unit
\* tests do: no config file is looked for, and the recognized files of the
\* working directory are read.
ModelValidateDirect ==
    /\ phase = "ready"
    /\ \E cwd \in Dirs, cli \in SourceChoices(Fields),
          file \in SourceChoices(AllFields) :
         LET i == Inputs("model_validate", cwd, None, Unset, cli.keys, cli.abs,
                         {}, FALSE, file.keys, file.abs)
             built == model_validate(tree, targets, i, _filter_nulls(overrides(i)))
         IN  /\ inv' = i
             /\ out' = Outcome(built.status, built.settings, None, <<>>, FALSE,
                               built.format, <<>>)
    /\ phase' = "done"
    /\ UNCHANGED <<tree, targets>>

InitMerge ==
    /\ \E c \in Dirs : tree = [d \in Dirs |-> IF d = c THEN YamlDir ELSE EmptyDir]
    /\ targets = [n \in {} |-> Absent]
    /\ inv = NoInputs
    /\ out = NoOutcome
    /\ phase = "ready"

NextMerge == InvokeWithSources \/ ModelValidateDirect

SpecMerge == InitMerge /\ [][NextMerge]_vars

Produced == phase = "done" /\ out.settings # None

\* The value a field has by default.
DefaultValue(f) ==
    CASE f = "venv_path" -> DefaultVenvPath
      [] f = "default_environment" -> None
      [] f = "show_commands" -> FALSE
      [] f = "config_file" -> None

\* The value the claimed precedence gives field f: the explicit argument if
\* given, else the environment variable if set, else the config file's.
ByPrecedence(f, i, governing) ==
    IF f = "config_file"
    THEN IF i.flag # None THEN i.flag
         ELSE IF i.envCfg.path # None THEN i.envCfg.path
         ELSE IF f \in i.fileKeys THEN FileValue(f, i.fileAbs, governing)
         ELSE DefaultValue(f)
    ELSE IF f \in i.cli THEN CliValue(f, i.cliAbs)
         ELSE IF f \in i.environ THEN EnvValue(f, i.envAbs)
         ELSE IF f \in i.fileKeys THEN FileValue(f, i.fileAbs, governing)
         ELSE DefaultValue(f)

PrecedenceHolds(fields) ==
    (Produced /\ inv.op = "from_context") =>
        \A f \in fields :
            TheValue(out.settings)[f] = ByPrecedence(f, inv, TheValue(out.config_file))

\* C6 as claimed: every settings field, config_file included, takes the
\* explicit argument if it was given, else UV_TOOLBOX_<FIELD> if set, else
\* the config file's value.
C6_PrecedenceEveryField == PrecedenceHolds(AllFields)

\* C6, amended: every settings field other than config_file takes the
\* explicit argument if it was given, else UV_TOOLBOX_<FIELD> if set, else
\* the config file's value; an argument passed as None masks nothing.
C6_PrecedenceOfSources == PrecedenceHolds(Fields)

\* A field that only lower sources give, while other arguments are passed
\* explicitly and as None, and a field all three sources give.
C6_Witness ==
    /\ Produced /\ inv.op = "from_context"
    /\ "venv_path" \in inv.cli /\ "venv_path" \in inv.environ
    /\ "venv_path" \in inv.fileKeys
    /\ "default_environment" \notin inv.cli
    /\ "default_environment" \in inv.environ
    /\ "default_environment" \in inv.fileKeys
    /\ "environments" \notin inv.cli /\ "environments" \notin inv.environ
    /\ TheValue(out.settings).default_environment = Some("b")

\* C8 as claimed: for every Settings the resolved base path is venv_path
\* itself when absolute and config_file.parent / venv_path when relative.
C8_ResolvedForEverySettings ==
    Produced =>
        LET st == TheValue(out.settings)
        IN  resolved_venv_path(st, inv.cwd) =
                IF st.venv_path.abs THEN [anchor |-> None, rel |-> st.venv_path]
                ELSE [anchor |-> {parent(p) : p \in st.config_file},
                      rel |-> st.venv_path]

\* C8, amended: for every Settings whose config_file is set (every Settings
\* from_context produces) the resolved base path is venv_path itself when
\* absolute and config_file.parent / venv_path when relative, whatever the
\* working directory.
C8_ResolvedFromConfigLocation ==
    (Produced /\ TheValue(out.settings).config_file # None) =>
        LET st == TheValue(out.settings)
        IN  resolved_venv_path(st, inv.cwd) =
                IF st.venv_path.abs THEN [anchor |-> None, rel |-> st.venv_path]
                ELSE [anchor |-> Some(parent(TheValue(st.config_file))),
                      rel |-> st.venv_path]

\* from_context always sets config_file.
FromContextSetsConfigFile ==
    (Produced /\ inv.op = "from_context") => TheValue(out.settings).config_file # None

\* A relative venv_path from a config file found above the working directory.
C8_Witness ==
    /\ Produced /\ inv.op = "from_context"
    /\ ~TheValue(out.settings).venv_path.abs
    /\ parent(TheValue(TheValue(out.settings).config_file)) # inv.cwd

\* ------------------------------------------------- environment identity

\* The lines a requirement text is authored from: a blank line, an indented
\* comment, a specifier with and without surrounding whitespace, and two
\* specifiers whose SHA-256 digests share their first 12 hex digits.
RawLines ==
    {<<>>, <<Space, Hash, "ruff">>, <<"ruff">>, <<Space, "ruff", Space>>,
     <<"pkg-9b5942b3867b">>, <<"pkg-083164ffed5a">>}

Authored == UNION {[1 .. n -> RawLines] : n \in 1 .. MaxLines}

\* The requirements file of the environment of that name.
RequirementsFile(name) == PathOf(Elsewhere, <<"requirements-" \o name, "txt">>)

\* The environment of that name whose requirement text has the given lines,
\* inline or in its requirements file.
AuthoredEnv(name, lines, inline, environment) ==
    IF inline THEN Environment(name, Some(join(lines)), None, environment)
    ELSE Environment(name, None, Some(RequirementsFile(name)), environment)

\* A Settings loaded from the uv-toolbox.yaml of directory 0 with two
\* environments; the process runs in another directory.
InitHash ==
    \E lines1, lines2 \in Authored, inline1, inline2, extra, abs \in BOOLEAN :
        LET env1 == AuthoredEnv("a", lines1, inline1, {})
            env2 == AuthoredEnv("b", lines2, inline2,
                                IF extra THEN {<<"PIP_INDEX_URL", "mirror">>} ELSE {})
            config_file == PathOf(0, YamlName)
        IN  /\ check_requirements(env1) /\ check_requirements(env2)
            /\ ensure_unique_env_names(<<env1, env2>>)
            /\ tree = [d \in Dirs |-> IF d = 0 THEN YamlDir ELSE EmptyDir]
            /\ targets =
                 [n \in {RequirementsFile("a").name : x \in {inline1} \ {TRUE}}
                        \cup {RequirementsFile("b").name : x \in {inline2} \ {TRUE}}
                    |-> IF n = RequirementsFile("a").name
                        THEN File(join(lines1)) ELSE File(join(lines2))]
            /\ inv = [op |-> "venv_path", cwd |-> MaxDepth,
                      settings |-> Settings(Some(config_file),
                                            FileValue("venv_path", abs, config_file),
                                            None, FALSE, <<env1, env2>>),
                      authored |-> <<lines1, lines2>>]
            /\ out = NoOutcome
            /\ phase = "ready"

\* env.venv_path(settings) for every environment of the Settings.
ResolveVenvPaths ==
    /\ phase = "ready"
    /\ inv.op = "venv_path"
    /\ out' = [status |-> "ok", settings |-> Some(inv.settings),
               venv_paths |->
                   [k \in DOMAIN inv.settings.environments |->
                       env_venv_path(inv.settings.environments[k], inv.settings,
                                     inv.cwd, tree, targets)]]
    /\ phase' = "done"
    /\ UNCHANGED <<tree, targets, inv>>

NextHash == ResolveVenvPaths

SpecHash == InitHash /\ [][NextHash]_vars

Resolved == phase = "done" /\ inv.op = "venv_path"

\* What a line says once surrounding whitespace is removed.
NotSpace(a) == a # Space
Content(line) == SelectSeq(line, NotSpace)

\* The whitespace-stripped lines that are neither empty nor comments.
RequirementLines(lines) ==
    {Content(lines[k]) : k \in DOMAIN lines}
        \ {c \in {Content(lines[k]) : k \in DOMAIN lines} : c = <<>> \/ Head(c) = Hash}

\* How often a line occurs among the whitespace-stripped lines.
Occurrences(lines, c) == Cardinality({k \in DOMAIN lines : Content(lines[k]) = c})

SameLineSets == RequirementLines(inv.authored[1]) = RequirementLines(inv.authored[2])

SameLineMultisets ==
    /\ SameLineSets
    /\ \A c \in RequirementLines(inv.authored[1]) :
          Occurrences(inv.authored[1], c) = Occurrences(inv.authored[2], c)

\* C9 as claimed: two requirement texts whose sets of whitespace-stripped,
\* non-empty, non-comment lines are equal have the same content identifier.
C9_EqualLineSetsSameIdentifier ==
    (Resolved /\ SameLineSets) => out.venv_paths[1].id = out.venv_paths[2].id

\* C9, amended: two requirement texts whose whitespace-stripped, non-empty,
\* non-comment lines are the same with the same multiplicities (whatever the
\* line order, blank lines, comment lines and surrounding whitespace) have
\* the same content identifier.
C9_EqualLineMultisetsSameIdentifier ==
    (Resolved /\ SameLineMultisets) => out.venv_paths[1].id = out.venv_paths[2].id

\* Two texts that list the same two specifiers in opposite orders, one of
\* them with surrounding whitespace.
C9_Witness ==
    /\ Resolved
    /\ inv.authored[1] = <<<<"ruff">>, <<"pkg-083164ffed5a">>>>
    /\ inv.authored[2] = <<<<"pkg-083164ffed5a">>, <<Space, "ruff", Space>>>>
    /\ out.venv_paths[1].id = out.venv_paths[2].id

\* A comment line and a blank line change nothing.
CommentAndBlankIgnored ==
    /\ Resolved
    /\ inv.authored[1] = <<<<Space, Hash, "ruff">>, <<"pkg-083164ffed5a">>>>
    /\ inv.authored[2] = <<<<"pkg-083164ffed5a">>, <<>>>>
    /\ out.venv_paths[1].id = out.venv_paths[2].id

\* The text an environment's identifier is computed from.
SourceText(k) == join(inv.authored[k])

\* The resolved base path of the Settings.
BasePath ==
    IF inv.settings.venv_path.abs
    THEN [anchor |-> None, rel |-> inv.settings.venv_path]
    ELSE [anchor |-> Some(parent(TheValue(inv.settings.config_file))),
          rel |-> inv.settings.venv_path]

\* C10 as claimed: two environments of one Settings resolve to the same venv
\* path exactly when their normalized requirement texts are equal.
C10_SamePathExactlyWhenSameText ==
    Resolved =>
        (out.venv_paths[1] = out.venv_paths[2]
            <=> _normalize_requirements(SourceText(1)) = _normalize_requirements(SourceText(2)))

\* C10, amended: an environment's venv path is resolved_base_path /
\* content_identifier, the identifier being the 12-digit hash of the
\* normalized requirement text alone; so two environments whose normalized
\* texts are equal resolve to the same path whatever their names, extra
\* environment variables and requirements source (and two whose texts differ
\* resolve to different paths unless the 12-digit hashes collide).
C10_PathFromNormalizedTextAlone ==
    Resolved =>
        /\ \A k \in DOMAIN out.venv_paths :
              out.venv_paths[k] =
                  [base |-> BasePath,
                   id |-> sha256_hexdigest_12(_normalize_requirements(SourceText(k)))]
        /\ _normalize_requirements(SourceText(1)) = _normalize_requirements(SourceText(2))
              => out.venv_paths[1] = out.venv_paths[2]
        /\ out.venv_paths[1] = out.venv_paths[2]
              <=> out.venv_paths[1].id = out.venv_paths[2].id

\* Differently named environments, one inline and one with a requirements
\* file and extra variables, authored differently, share a venv path.
C10_Witness ==
    /\ Resolved
    /\ inv.settings.environments[1].requirements # None
    /\ inv.settings.environments[2].requirements_file # None
    /\ inv.settings.environments[2].environment # {}
    /\ inv.authored[1] # inv.authored[2]
    /\ ~inv.settings.venv_path.abs
    /\ out.venv_paths[1] = out.venv_paths[2]

\* ------------------------------------------- construction and selection

\* UvToolboxEnvironment(**data): the fields are taken as given and
\* check_requirements decides whether the Environment exists.
UvToolboxEnvironment(data) ==
    IF check_requirements(data)
    THEN [status |-> "ok", environment |-> Some(data)]
    ELSE [status |-> "ValidationError", environment |-> None]

\* [env.name for env in self.environments]
available(settings) ==
    [k \in 1 .. Len(settings.environments) |-> settings.environments[k].name]

\* The first environment of that name.
FirstNamed(settings, name) ==
    settings.environments[
        CHOOSE k \in 1 .. Len(settings.environments) :
            /\ settings.environments[k].name = name
            /\ \A j \in 1 .. (k - 1) : settings.environments[j].name # name]

\* A mutation of select_environment: default_environment is not consulted.
select_environment_without_default(settings, env_name) ==
    IF env_name # None /\ TheValue(env_name) # ""
    THEN IF \E k \in 1 .. Len(settings.environments) :
                settings.environments[k].name = TheValue(env_name)
         THEN [status |-> "ok", env |-> Some(FirstNamed(settings, TheValue(env_name)))]
         ELSE [status |-> "EnvironmentNotFoundError", env |-> None,
               env_name |-> env_name, available |-> available(settings)]
    ELSE IF Len(settings.environments) = 1
         THEN [status |-> "ok", env |-> Some(settings.environments[1])]
         ELSE [status |-> "MultipleEnvironmentsError", env |-> None,
               available |-> available(settings)]

\* UvToolboxSettings.select_environment.  `env_name or
\* self.default_environment` takes the default when env_name is None or the
\* empty string.
select_environment(settings, env_name) ==
    LET name == IF env_name # None /\ TheValue(env_name) # ""
                THEN env_name ELSE settings.default_environment
    IN  IF name # None
        THEN IF \E k \in 1 .. Len(settings.environments) :
                    settings.environments[k].name = TheValue(name)
             THEN [status |-> "ok", env |-> Some(FirstNamed(settings, TheValue(name)))]
             ELSE [status |-> "EnvironmentNotFoundError", env |-> None,
                   env_name |-> name, available |-> available(settings)]
        ELSE IF Len(settings.environments) = 1
             THEN [status |-> "ok", env |-> Some(settings.environments[1])]
             ELSE [status |-> "MultipleEnvironmentsError", env |-> None,
                   available |-> available(settings)]

\* A mutation of requirements_argument: the inline text is used whenever it
\* is set, even when empty.
requirements_argument_inline_first(env) ==
    IF env.requirements # None
    THEN [kind |-> "inline", text |-> env.requirements, file |-> None]
    ELSE IF env.requirements_file # None
    THEN [kind |-> "file", text |-> None, file |-> env.requirements_file]
    ELSE [kind |-> "unbound", text |-> None, file |-> None]

\* install_requirements: what `-r` names, the requirements file or a
\* temporary file that holds the inline text.
requirements_argument(env) ==
    IF env.requirements_file # None
    THEN [kind |-> "file", text |-> None, file |-> env.requirements_file]
    ELSE IF env.requirements # None
    THEN [kind |-> "inline", text |-> env.requirements, file |-> None]
    ELSE [kind |-> "unbound", text |-> None, file |-> None]

\* The text the package manager reads from the file `-r` names: the
\* requirements file as it is, or the temporary file, into which
\* install_requirements wrote the inline text.
requirements_handed(arg, t, tg) ==
    IF arg.kind = "file" THEN read_text(EntryAt(t, tg, TheValue(arg.file)))
    ELSE TheValue(arg.text)

\* Environment names: the empty string, and two that differ in case only.
EnvNames == {"", "a", "A"}

\* The environments a payload may list: each with or without an inline
\* text (possibly the empty string) and with or without a requirements file.
EnvData ==
    {Environment(n, r, f, {}) :
        n \in EnvNames,
        r \in {None, Some(<<>>), Some(Text(<<"ruff">>))},
        f \in {None, Some(RequirementsFile("x"))}}

Payloads ==
    [environments : UNION {[1 .. n -> EnvData] : n \in 0 .. MaxEnvs},
     default_environment : {None} \cup {Some(n) : n \in EnvNames \cup {"b"}}]

\* The names a caller may pass to select_environment.
PassedNames == {None} \cup {Some(n) : n \in EnvNames \cup {"b"}}

\* The init kwargs of a payload: default_environment only when given, as
\* the tests' _make_settings builds it.
InitKwargs(payload) ==
    IF payload.default_environment = None
    THEN [f \in {"environments"} |-> payload.environments]
    ELSE [f \in {"environments", "default_environment"} |-> payload[f]]

\* The requirements file the payloads name holds other requirements than
\* their inline texts.
InitValidate ==
    /\ tree = EmptyTree
    /\ targets = [n \in {RequirementsFile("x").name} |->
                     File(Text(<<"pkg-083164ffed5a">>))]
    /\ \E payload \in Payloads :
          inv = [op |-> "construct", cwd |-> 0, payload |-> payload,
                 env_name |-> None]
    /\ out = NoOutcome
    /\ phase = "ready"

\* UvToolboxSettings.model_validate(payload), no config file in sight.
ConstructSettings ==
    /\ phase = "ready"
    /\ inv.op = "construct"
    /\ LET i == Inputs("model_validate", inv.cwd, None, Unset, {}, FALSE, {}, FALSE,
                       {}, FALSE)
           built == model_validate(tree, targets, i, InitKwargs(inv.payload))
       IN  out' = Outcome(built.status, built.settings, None, <<>>, FALSE,
                          built.format, <<>>)
    /\ phase' = "built"
    /\ inv' = [inv EXCEPT !.op = "model_validate"]
    /\ UNCHANGED <<tree, targets>>

\* UvToolboxEnvironment(...) for the first environment of the payload alone.
ConstructEnvironment ==
    /\ phase = "ready"
    /\ inv.op = "construct"
    /\ inv.payload.environments # <<>>
    /\ out' = UvToolboxEnvironment(inv.payload.environments[1])
    /\ phase' = "done"
    /\ inv' = [inv EXCEPT !.op = "UvToolboxEnvironment"]
    /\ UNCHANGED <<tree, targets>>

\* The constructed Environment is given a venv directory and its
\* requirements are handed to `uv pip install -r`.
InstallEnvironment ==
    /\ phase = "done"
    /\ inv.op = "UvToolboxEnvironment"
    /\ out.status = "ok"
    /\ out' = [status |-> "ok", environment |-> out.environment,
               req_hash |-> _get_requirements_hash(TheValue(out.environment),
                                                   tree, targets),
               reqs_arg |-> requirements_argument(TheValue(out.environment)),
               handed |-> requirements_handed(
                              requirements_argument(TheValue(out.environment)),
                              tree, targets)]
    /\ phase' = "installed"
    /\ inv' = [inv EXCEPT !.op = "install_requirements"]
    /\ UNCHANGED <<tree, targets>>

\* settings.select_environment(env_name) on a constructed Settings.
SelectEnvironment ==
    /\ phase = "built"
    /\ inv.op = "model_validate"
    /\ out.settings # None
    /\ \E env_name \in PassedNames :
          /\ inv' = [inv EXCEPT !.op = "select_environment", !.env_name = env_name]
          /\ out' = [settings |-> out.settings,
                     selected |-> select_environment(TheValue(out.settings), env_name)]
    /\ phase' = "done"
    /\ UNCHANGED <<tree, targets>>

NextValidate ==
    ConstructSettings \/ ConstructEnvironment \/ InstallEnvironment \/ SelectEnvironment

SpecValidate == InitValidate /\ [][NextValidate]_vars

Constructed == phase = "built" /\ inv.op = "model_validate"

\* The three invariants of a Settings, stated of any list of environments
\* and default.
AtLeastOneEnvironment(environments) == Len(environments) >= 1

DistinctNames(environments) ==
    \A j, k \in 1 .. Len(environments) :
        j # k => environments[j].name # environments[k].name

DefaultIsConfigured(default_environment, environments) ==
    \/ default_environment = None
    \/ \E k \in 1 .. Len(environments) :
          environments[k].name = TheValue(default_environment)

\* C11: every constructed Settings has at least one environment, pairwise
\* distinct names (case-sensitive) and a default_environment that is unset
\* or the name of one of its environments; an input that violates one of
\* these is rejected with a validation error and no Settings is produced.
C11_SettingsInvariants ==
    Constructed =>
        /\ out.settings # None =>
              LET st == TheValue(out.settings)
              IN  /\ AtLeastOneEnvironment(st.environments)
                  /\ DistinctNames(st.environments)
                  /\ DefaultIsConfigured(st.default_environment, st.environments)
                  /\ st.environments = inv.payload.environments
                  /\ st.default_environment = inv.payload.default_environment
        /\ ( \/ ~AtLeastOneEnvironment(inv.payload.environments)
             \/ ~DistinctNames(inv.payload.environments)
             \/ ~DefaultIsConfigured(inv.payload.default_environment,
                                     inv.payload.environments) )
            => out.status = "ValidationError" /\ out.settings = None

\* A Settings whose two environments differ in case only, one of them the
\* default.
C11_Witness ==
    /\ Constructed
    /\ out.settings # None
    /\ Len(TheValue(out.settings).environments) = 2
    /\ TheValue(out.settings).environments[1].name = "a"
    /\ TheValue(out.settings).environments[2].name = "A"
    /\ TheValue(out.settings).default_environment = Some("A")

\* A payload with a repeated name is rejected.
DuplicateRejected ==
    /\ Constructed
    /\ Len(inv.payload.environments) = 2
    /\ inv.payload.environments[1].name = inv.payload.environments[2].name
    /\ \A k \in 1 .. 2 : check_requirements(inv.payload.environments[k])
    /\ out.status = "ValidationError"

EnvironmentConstructed == phase = "done" /\ inv.op = "UvToolboxEnvironment"

\* C12: an Environment is constructed if and only if exactly one of
\* requirements and requirements_file is set (is not None); otherwise
\* construction fails with a validation error; so every Environment has
\* exactly one requirements source.
C12_ExactlyOneRequirementsSource ==
    EnvironmentConstructed =>
        LET data == inv.payload.environments[1]
            one == (data.requirements # None) # (data.requirements_file # None)
        IN  /\ out.status = "ok" <=> one
            /\ ~one => out.status = "ValidationError" /\ out.environment = None
            /\ out.environment # None =>
                  (TheValue(out.environment).requirements # None)
                      # (TheValue(out.environment).requirements_file # None)

\* C12 when no requirements text is the empty string.
ExactlyOneWhenNotEmpty ==
    (EnvironmentConstructed
        /\ inv.payload.environments[1].requirements # Some(<<>>))
        => C12_ExactlyOneRequirementsSource

Selected == phase = "done" /\ inv.op = "select_environment"

\* The names of a Settings in declaration order.
ConfiguredNames(st) == [k \in 1 .. Len(st.environments) |-> st.environments[k].name]

\* C13: for every name passed to select_environment the result is the
\* environment of exactly that name, or else the environment-not-found
\* error with all configured names in declaration order; the default
\* environment never stands in for a name that was passed.
C13_SelectByName ==
    (Selected /\ inv.env_name # None) =>
        LET st == TheValue(out.settings)
            n == TheValue(inv.env_name)
        IN  IF \E k \in 1 .. Len(st.environments) : st.environments[k].name = n
            THEN /\ out.selected.status = "ok"
                 /\ TheValue(out.selected.env).name = n
                 /\ \E k \in 1 .. Len(st.environments) :
                        st.environments[k] = TheValue(out.selected.env)
            ELSE /\ out.selected.status = "EnvironmentNotFoundError"
                 /\ out.selected.available = ConfiguredNames(st)

\* C13 for names that are not the empty string.
SelectByNonEmptyName ==
    (Selected /\ inv.env_name # None /\ inv.env_name # Some("")) => C13_SelectByName

\* C14: without a name, select_environment on a validated Settings returns
\* the default environment when default_environment is set, else the sole
\* environment when exactly one is configured, else fails with the
\* multiple-environments error listing all names; never with
\* environment-not-found.
C14_SelectWithoutName ==
    (Selected /\ inv.env_name = None) =>
        LET st == TheValue(out.settings)
        IN  /\ out.selected.status # "EnvironmentNotFoundError"
            /\ IF st.default_environment # None
               THEN /\ out.selected.status = "ok"
                    /\ TheValue(out.selected.env).name = TheValue(st.default_environment)
                    /\ \E k \in 1 .. Len(st.environments) :
                           st.environments[k] = TheValue(out.selected.env)
               ELSE IF Len(st.environments) = 1
               THEN /\ out.selected.status = "ok"
                    /\ out.selected.env = Some(st.environments[1])
               ELSE /\ out.selected.status = "MultipleEnvironmentsError"
                    /\ out.selected.available = ConfiguredNames(st)

\* The default, which is not the first environment, is returned when no
\* name is passed.
C14_Witness ==
    /\ Selected /\ inv.env_name = None
    /\ Len(TheValue(out.settings).environments) = 2
    /\ TheValue(out.settings).default_environment = Some("A")
    /\ TheValue(out.settings).environments[2].name = "A"
    /\ out.selected.status = "ok"
    /\ out.selected.env = Some(TheValue(out.settings).environments[2])

\* Several environments and no default: the multiple-environments error.
NoneSelectedAmongSeveral ==
    /\ Selected /\ inv.env_name = None
    /\ out.selected.status = "MultipleEnvironmentsError"

\* ------------------------------------------------------------- commands

\* The errors errors.py derives from UvToolboxError.
UvToolboxError ==
    {"MissingCliError", "ExternalCommandError", "EnvironmentNotFoundError",
     "MultipleEnvironmentsError", "CommandDelimiterRequiredError"}

\* How an external command may end: exit status 0, a non-zero exit status,
\* or its executable is not found.
ExitsOfExternal == {"ok", "nonzero", "missing"}

\* run_checked: nothing raised, or the error raised for that ending.
run_checked(ending) ==
    CASE ending = "ok" -> None
      [] ending = "nonzero" -> Some("ExternalCommandError")
      [] ending = "missing" -> Some("MissingCliError")

\* The directory of a venv path.  All venvs of one run lie under the one
\* resolved base path, so the directory is known by its identifier.
VenvDir(venv) == PathOf(Elsewhere, <<venv.id>>)

\* venv_path.exists()
venv_exists(tg, venv) == exists(EntryAt(EmptyTree, tg, VenvDir(venv)))

\* The filesystem after `uv venv <path> --clear` left a venv there.
WithVenv(tg, venv) ==
    [n \in DOMAIN tg \cup {VenvDir(venv).name} |->
        IF n = VenvDir(venv).name THEN Directory ELSE tg[n]]

\* The state of one run of the command line: where it is (pc), the Settings
\* once loaded, the environment at hand and its position in the list, the
\* steps taken so far (log), what was written to standard error, and how the
\* process ended: exit is the exit status, raised the exception that left
\* the command unhandled.
Process(pc, settings, env, position, log, stderr, exit, raised) ==
    [pc |-> pc, settings |-> settings, env |-> env, position |-> position,
     log |-> log, stderr |-> stderr, exit |-> exit, raised |-> raised]

\* typer.secho(str(exc), err=True); raise typer.Exit(code=1)
Handled(proc, exc) ==
    [proc EXCEPT !.pc = "exited", !.stderr = Append(@, exc), !.exit = Some(1)]

\* An exception no handler of the command catches: the interpreter prints a
\* traceback and the process ends with status 1.
Unhandled(proc, exc) ==
    [proc EXCEPT !.pc = "exited", !.raised = Some(exc), !.exit = Some(1)]

\* An exception raised inside `try: ... except UvToolboxError`.
RaisedInTry(proc, exc) ==
    IF exc \in UvToolboxError THEN Handled(proc, exc) ELSE Unhandled(proc, exc)

\* The command returns normally.
Returned(proc) == [proc EXCEPT !.pc = "exited", !.exit = Some(0)]

\* One step recorded.
Logged(proc, step) == [proc EXCEPT !.log = Append(@, step)]

\* ------------------------------------------------------------------ shims
\* A venv directory holds `bin` with the installed programs and, once shims
\* were generated, `shims` with the wrapper scripts (the POSIX layout).

\* A file of a venv: its execute permission and, for a wrapper script, the
\* program it execs.
Program(mode, script) == [mode |-> mode, script |-> script]
Installed == File(Program("x", None))
NotExecutable == File(Program("-", None))

\* Environment.executables: the names to generate shims for, empty by default.
executables(env) == IF "executables" \in DOMAIN env THEN env.executables ELSE <<>>

\* An Environment that lists executables.
WithExecutables(env, names) ==
    [f \in DOMAIN env \cup {"executables"} |->
        IF f = "executables" THEN names ELSE env[f]]

\* An executable name that is a relative path into the binary directory.
UpToBinRuff == "../bin/ruff"

\* The components of an executable name, as Path's `/` joins them.
Parts(exe_name) ==
    IF exe_name = UpToBinRuff THEN <<"..", "bin", "ruff">> ELSE <<exe_name>>

\* The entry the system reaches under a name: `x/..` is where x is.
RECURSIVE Normal(_)
Normal(name) ==
    IF \E k \in 2 .. Len(name) : name[k] = ".."
    THEN LET k == CHOOSE k \in 2 .. Len(name) :
                      name[k] = ".." /\ \A j \in 2 .. (k - 1) : name[j] # ".."
         IN  Normal(SubSeq(name, 1, k - 2) \o SubSeq(name, k + 1, Len(name)))
    ELSE name

\* _venv_bin_path(venv_path) / exe_name
BinPath(venv, exe_name) ==
    PathOf(Elsewhere, Normal(<<venv.id, "bin">> \o Parts(exe_name)))

\* venv_path / 'shims' and shim_dir / exe_name
ShimDir(venv) == PathOf(Elsewhere, <<venv.id, "shims">>)
ShimPath(venv, exe_name) ==
    PathOf(Elsewhere, Normal(<<venv.id, "shims">> \o Parts(exe_name)))

\* os.access(path, os.X_OK)
access_X_OK(e) == e.kind = "dir" \/ (e.kind = "file" /\ e.body.mode = "x")

\* _find_executable on a POSIX system: the path of the program, if any.
_find_executable(tg, venv, exe_name) ==
    LET exe_path == BinPath(venv, exe_name)
    IN  IF exists(EntryAt(EmptyTree, tg, exe_path)) /\ access_X_OK(EntryAt(EmptyTree, tg, exe_path))
        THEN Some(exe_path) ELSE None

\* The filesystem with one more entry.
WithEntry(tg, p, e) ==
    [n \in DOMAIN tg \cup {p.name} |-> IF n = p.name THEN e ELSE tg[n]]

\* _create_unix_shim: the script is written and marked executable.
_create_unix_shim(tg, shim_path, target_path) ==
    WithEntry(tg, shim_path, File(Program("x", Some(target_path))))

\* _create_shim_for_executable: nothing happens when the program is missing.
_create_shim_for_executable(tg, venv, exe_name) ==
    LET target_path == _find_executable(tg, venv, exe_name)
    IN  IF target_path = None THEN tg
        ELSE _create_unix_shim(tg, ShimPath(venv, exe_name), TheValue(target_path))

\* The entries of a directory of a venv.
InDirectory(n, dir) ==
    /\ Len(n) = Len(dir.name) + 1
    /\ SubSeq(n, 1, Len(dir.name)) = dir.name

\* for shim_file in shim_dir.iterdir(): if shim_file.is_file(): unlink()
ClearShims(tg, venv) ==
    LET gone == {n \in DOMAIN tg : InDirectory(n, ShimDir(venv)) /\ is_file(tg[n])}
    IN  [n \in DOMAIN tg \ gone |-> tg[n]]

RECURSIVE CreateEachShim(_, _, _)
CreateEachShim(tg, venv, names) ==
    IF names = <<>> THEN tg
    ELSE CreateEachShim(_create_shim_for_executable(tg, venv, Head(names)),
                        venv, Tail(names))

\* A mutation of _create_shims_for_environment: an environment without
\* executables gets its (empty) shims directory too.
_create_shims_for_environment_even_when_empty(env, settings, cwd, t, tg) ==
    LET venv == env_venv_path(env, settings, cwd, t, tg)
    IN  IF ~venv_exists(tg, venv)
        THEN [shim_dir |-> None, fs |-> tg]
        ELSE [shim_dir |-> Some(ShimDir(venv)),
              fs |-> CreateEachShim(
                         ClearShims(WithEntry(tg, ShimDir(venv), Directory), venv),
                         venv, executables(env))]

\* _create_shims_for_environment: the shims directory, or None when the
\* environment is skipped; and the filesystem it leaves.
_create_shims_for_environment(env, settings, cwd, t, tg) ==
    LET venv == env_venv_path(env, settings, cwd, t, tg)
    IN  IF ~venv_exists(tg, venv)
        THEN [shim_dir |-> None, fs |-> tg]
        ELSE IF executables(env) = <<>>
        THEN [shim_dir |-> None, fs |-> tg]
        ELSE [shim_dir |-> Some(ShimDir(venv)),
              fs |-> CreateEachShim(
                         ClearShims(WithEntry(tg, ShimDir(venv), Directory), venv),
                         venv, executables(env))]

\* create_shims: the shim directories in configuration order, and the
\* filesystem it leaves.
RECURSIVE create_shims_from(_, _, _, _, _, _)
create_shims_from(k, shim_dirs, settings, cwd, t, tg) ==
    IF k > Len(settings.environments) THEN [shim_dirs |-> shim_dirs, fs |-> tg]
    ELSE LET made == _create_shims_for_environment(settings.environments[k],
                                                   settings, cwd, t, tg)
         IN  create_shims_from(
                 k + 1,
                 IF made.shim_dir # None
                 THEN Append(shim_dirs, TheValue(made.shim_dir)) ELSE shim_dirs,
                 settings, cwd, t, made.fs)

create_shims(settings, cwd, t, tg) == create_shims_from(1, <<>>, settings, cwd, t, tg)

\* --------------------------------------------------- the command line tool

\* One recorded step: what was done, for which environment, how it ended.
Event(step, env, ending) == [step |-> step, env |-> env, ending |-> ending]

Range(seq) == {seq[k] : k \in DOMAIN seq}

\* The tokens of the user's command, and sys.argv of an `exec` invocation
\* with the delimiter before the command, after it, or left out.
CommandTokens == <<"ruff">>

Placements == {"before", "after", "absent"}

exec_argv(clear, env_name, placement) ==
    <<"uv-toolbox", "exec">>
        \o (IF clear THEN <<"--clear">> ELSE <<>>)
        \o (IF env_name # None THEN <<"--env", TheValue(env_name)>> ELSE <<>>)
        \o (CASE placement = "before" -> <<"--">> \o CommandTokens
              [] placement = "after" -> CommandTokens \o <<"--">>
              [] placement = "absent" -> CommandTokens)

\* '--' in sys.argv
argv_has_delimiter(argv) == "--" \in Range(argv)

\* A mutation of exec_needs_initialize: --clear is ignored.
exec_needs_initialize_ignoring_clear(tg, venv, clear) == ~venv_exists(tg, venv)

\* exec_: not env.venv_path(settings=settings).exists() or clear
exec_needs_initialize(tg, venv, clear) == ~venv_exists(tg, venv) \/ clear

\* A mutation of initialize_creates: an existing venv is never re-created.
initialize_creates_ignoring_clear(tg, venv, clear) == ~venv_exists(tg, venv)

\* initialize_virtualenv: not venv_path.exists() or clear
initialize_creates(tg, venv, clear) == ~venv_exists(tg, venv) \/ clear

\* A mutation of FreshVenv: what is in the venv directory stays.
FreshVenv_keeping_contents(tg, venv) == WithVenv(tg, venv)

\* What `uv venv <path> --clear` leaves: a fresh, empty venv directory.
FreshVenv(tg, venv) ==
    WithVenv([n \in {m \in DOMAIN tg : m[1] # VenvDir(venv).name[1]} |-> tg[n]], venv)

\* What `uv pip install` leaves: the packages in the venv.
Packages(venv) == PathOf(Elsewhere, <<venv.id, "lib">>)
Populated(tg, venv) == WithEntry(tg, Packages(venv), Directory)

\* Path(tempfile.mkdtemp()), one per call.
TempDir(tag) == PathOf(Elsewhere, <<"tmp", tag>>)

\* A mutation of create_virtualenv: a failing `uv venv` is passed over and
\* the install step follows.
create_virtualenv_unchecked(proc, tg, venv, env, ending) ==
    [proc |-> [Logged(proc, Event("uv venv", env.name, ending))
                  EXCEPT !.pc = "install"],
     fs |-> IF run_checked(ending) = None THEN FreshVenv(tg, venv) ELSE tg]

\* install_requirements: the temporary directory is made for inline
\* requirements, the install command runs, and the directory is removed
\* when the command returned.
install_requirements(proc, tg, venv, env, tag, next_pc, ending) ==
    IF run_checked(ending) = None
    THEN [proc |-> [Logged(proc, Event("uv pip install", env.name, ending))
                       EXCEPT !.pc = next_pc],
          fs |-> Populated(tg, venv)]
    ELSE [proc |-> RaisedInTry(Logged(proc, Event("uv pip install", env.name, ending)),
                               TheValue(run_checked(ending))),
          fs |-> IF requirements_argument(env).kind = "inline"
                 THEN WithEntry(tg, TempDir(tag), Directory) ELSE tg]

\* create_virtualenv with clear=True: the command runs; a failure leaves
\* the filesystem alone.
create_virtualenv(proc, tg, venv, env, ending) ==
    IF run_checked(ending) = None
    THEN [proc |-> [Logged(proc, Event("uv venv", env.name, ending))
                       EXCEPT !.pc = "install"],
          fs |-> FreshVenv(tg, venv)]
    ELSE [proc |-> RaisedInTry(Logged(proc, Event("uv venv", env.name, ending)),
                               TheValue(run_checked(ending))),
          fs |-> tg]

\* initialize_virtualenv up to its first external command.
initialize_virtualenv(proc, tg, venv, env, clear) ==
    [Logged(proc, Event("initialize_virtualenv", env.name, "ok")) EXCEPT
        !.pc = IF initialize_creates(tg, venv, clear) THEN "create" ELSE "install"]

\* A mutation of install_environment_at: the environments are taken last first.
install_environment_at_reversed(settings, position) ==
    settings.environments[Len(settings.environments) + 1 - position]

\* install: for env in settings.environments
install_environment_at(settings, position) == settings.environments[position]

\* The configurations of the command-line runs: one or more environments
\* named by position, each with one inline requirement; the first lists the
\* executable `ruff`.
CliNames == <<"a", "b", "c">>

CliEnvironments ==
    UNION {
        {[k \in 1 .. n |->
            IF k = 1
            THEN WithExecutables(InlineEnv(CliNames[k], <<words[k]>>), <<"ruff">>)
            ELSE InlineEnv(CliNames[k], <<words[k]>>)] :
         words \in [1 .. n -> Specifiers]} :
        n \in 1 .. MaxEnvs}

CliPayloads ==
    [environments : CliEnvironments,
     default_environment : {None, Some("a"), Some("z")}]

\* The venv directories there may be before the run, each with `ruff` in bin.
VenvIds == {sha256_hexdigest_12(Text(<<w>>)) : w \in Specifiers}

VenvsOf(ids) ==
    [n \in {<<id>> : id \in ids} \cup {<<id, "lib">> : id \in ids}
            \cup {<<id, "bin", "ruff">> : id \in ids} |->
        IF Len(n) = 3 THEN Installed ELSE Directory]

Idle == Process("idle", None, None, 0, <<>>, <<>>, None, None)

\* A project directory with or without its uv-toolbox.yaml, and the venvs
\* of earlier runs.
InitCli ==
    /\ tree \in {EmptyTree, [EmptyTree EXCEPT ![0] = YamlDir]}
    /\ \E ids \in SUBSET VenvIds : targets = VenvsOf(ids)
    /\ \E payload \in CliPayloads :
          inv = [file_values |-> InitKwargs(payload), command |-> "none",
                 argv |-> <<>>, clear |-> FALSE, env_name |-> None,
                 initially |-> targets]
                @@ Inputs("from_context", 0, None, Unset, {}, FALSE, {}, FALSE,
                          DOMAIN InitKwargs(payload), FALSE)
    /\ out = Idle
    /\ phase = "ready"

\* The user runs `uv-toolbox install [--clear]`.
InvokeInstall ==
    /\ phase = "ready" /\ out.pc = "idle"
    /\ \E clear \in BOOLEAN :
          inv' = [inv EXCEPT !.command = "install", !.clear = clear,
                     !.argv = <<"uv-toolbox", "install">>
                                  \o (IF clear THEN <<"--clear">> ELSE <<>>)]
    /\ out' = [out EXCEPT !.pc = "entered"]
    /\ phase' = "running"
    /\ UNCHANGED <<tree, targets>>

\* The user runs `uv-toolbox exec [--clear] [--env NAME] ... ruff`.
InvokeExec ==
    /\ phase = "ready" /\ out.pc = "idle"
    /\ \E clear \in BOOLEAN, env_name \in {None, Some("a"), Some("b")},
          placement \in Placements :
          inv' = [inv EXCEPT !.command = "exec", !.clear = clear,
                     !.env_name = env_name,
                     !.argv = exec_argv(clear, env_name, placement)]
    /\ out' = [out EXCEPT !.pc = "entered"]
    /\ phase' = "running"
    /\ UNCHANGED <<tree, targets>>

\* The user runs `uv-toolbox shim`.
InvokeShim ==
    /\ phase = "ready" /\ out.pc = "idle"
    /\ inv' = [inv EXCEPT !.command = "shim", !.argv = <<"uv-toolbox", "shim">>]
    /\ out' = [out EXCEPT !.pc = "entered"]
    /\ phase' = "running"
    /\ UNCHANGED <<tree, targets>>

\* The settings are loaded: the command goes on, or the error propagates.
Loaded(proc, command, loaded) ==
    IF loaded.status # "ok"
    THEN Unhandled(Logged(proc, Event("from_context", "", loaded.status)),
                   loaded.status)
    ELSE [Logged(proc, Event("from_context", "", "ok")) EXCEPT
             !.settings = loaded.settings,
             !.position = 1,
             !.pc = CASE command = "install" -> "loop"
                      [] command = "exec" -> "select"
                      [] command = "shim" -> "shims"]

\* The head of each command, before its try block: exec_ checks sys.argv,
\* and every command loads the settings with from_context.
EnterCommand ==
    /\ out.pc = "entered"
    /\ IF inv.command = "exec" /\ ~argv_has_delimiter(inv.argv)
       THEN out' = Unhandled(out, "CommandDelimiterRequiredError")
       ELSE out' = Loaded(out, inv.command, from_context(tree, targets, inv))
    /\ UNCHANGED <<tree, targets, inv, phase>>

\* install: the next environment of the loop, or the end of the command.
NextEnvironment ==
    /\ out.pc = "loop"
    /\ LET settings == TheValue(out.settings)
       IN  IF out.position > Len(settings.environments)
           THEN out' = Returned(out)
           ELSE out' = [out EXCEPT
                           !.env = Some(install_environment_at(settings, out.position)),
                           !.position = @ + 1,
                           !.pc = "initialize"]
    /\ UNCHANGED <<tree, targets, inv, phase>>

\* exec_: the environment is selected and its venv looked up.
SelectForExec ==
    /\ out.pc = "select"
    /\ LET settings == TheValue(out.settings)
           selected == select_environment(settings, inv.env_name)
       IN  IF selected.status # "ok"
           THEN out' = RaisedInTry(Logged(out, Event("select", "", selected.status)),
                                   selected.status)
           ELSE LET env == TheValue(selected.env)
                    venv == env_venv_path(env, settings, inv.cwd, tree, targets)
                IN  out' = [Logged(out, Event("select", env.name, "ok")) EXCEPT
                               !.env = selected.env,
                               !.pc = IF exec_needs_initialize(targets, venv, inv.clear)
                                      THEN "initialize" ELSE "run"]
    /\ UNCHANGED <<tree, targets, inv, phase>>

\* initialize_virtualenv up to its first external command.
InitializeVirtualenv ==
    /\ out.pc = "initialize"
    /\ out' = initialize_virtualenv(
                  out, targets,
                  env_venv_path(TheValue(out.env), TheValue(out.settings),
                                inv.cwd, tree, targets),
                  TheValue(out.env), inv.clear)
    /\ UNCHANGED <<tree, targets, inv, phase>>

\* create_virtualenv: `uv venv <path> --clear` leaves a fresh venv
\* directory, or fails.
CreateVirtualenv ==
    /\ out.pc = "create"
    /\ \E ending \in ExitsOfExternal :
          LET done == create_virtualenv(
                          out, targets,
                          env_venv_path(TheValue(out.env), TheValue(out.settings),
                                        inv.cwd, tree, targets),
                          TheValue(out.env), ending)
          IN  out' = done.proc /\ targets' = done.fs
    /\ UNCHANGED <<tree, inv, phase>>

\* install_requirements: `uv pip install -r <file> --exact` succeeds or
\* fails; afterwards install goes on with its loop and exec_ runs the command.
InstallRequirements ==
    /\ out.pc = "install"
    /\ \E ending \in ExitsOfExternal :
          LET done == install_requirements(
                          out, targets,
                          env_venv_path(TheValue(out.env), TheValue(out.settings),
                                        inv.cwd, tree, targets),
                          TheValue(out.env), TheValue(out.env).name,
                          IF inv.command = "install" THEN "loop" ELSE "run",
                          ending)
          IN  out' = done.proc /\ targets' = done.fs
    /\ UNCHANGED <<tree, inv, phase>>

\* exec_: `uv run --isolated -- <command>` succeeds or fails.
RunCommand ==
    /\ out.pc = "run"
    /\ \E ending \in ExitsOfExternal :
          LET env == TheValue(out.env)
              proc == Logged(out, Event("uv run", env.name, ending))
          IN  IF run_checked(ending) = None
              THEN out' = Returned(proc)
              ELSE out' = RaisedInTry(proc, TheValue(run_checked(ending)))
    /\ UNCHANGED <<tree, targets, inv, phase>>

\* shim: the shims are created and the shell code is echoed.
ShimCommand ==
    /\ out.pc = "shims"
    /\ LET settings == TheValue(out.settings)
           made == create_shims(settings, inv.cwd, tree, targets)
       IN  /\ targets' = made.fs
           /\ out' = Returned(Logged(out,
                         Event("create_shims", "",
                               IF made.shim_dirs # <<>> THEN "export PATH"
                               ELSE "# No shims to add to PATH")))
    /\ UNCHANGED <<tree, inv, phase>>

NextCli ==
    \/ InvokeInstall \/ InvokeExec \/ InvokeShim \/ EnterCommand
    \/ NextEnvironment \/ SelectForExec \/ InitializeVirtualenv
    \/ CreateVirtualenv \/ InstallRequirements \/ RunCommand \/ ShimCommand

SpecCli == InitCli /\ [][NextCli]_vars

\* ------------------------------------------------------- claims: commands

Finished == out.pc = "exited"

\* The environments initialize_virtualenv was called for, in call order.
InitializedNames ==
    LET calls == SelectSeq(out.log, LAMBDA e : e.step = "initialize_virtualenv")
    IN  [k \in 1 .. Len(calls) |-> calls[k].env]

\* The external commands that failed.
FailedSteps ==
    SelectSeq(out.log, LAMBDA e : e.step \in {"uv venv", "uv pip install", "uv run"}
                                   /\ e.ending # "ok")

\* C15: install initializes the configured environments one by one in
\* declaration order, each at most once; when no initialization fails every
\* environment has been initialized exactly once and the exit status is 0;
\* when an initialization raises a tool error its message is written to
\* standard error and the exit status is 1.
C15_InstallInitializesInOrder ==
    (inv.command = "install" /\ out.settings # None) =>
        LET names == available(TheValue(out.settings))
        IN  /\ Len(InitializedNames) <= Len(names)
            /\ InitializedNames = SubSeq(names, 1, Len(InitializedNames))
            /\ (Finished /\ FailedSteps = <<>>) =>
                  /\ InitializedNames = names
                  /\ out.exit = Some(0)
                  /\ out.stderr = <<>>
            /\ (Finished /\ FailedSteps # <<>>) =>
                  /\ out.exit = Some(1)
                  /\ out.raised = None
                  /\ out.stderr = <<TheValue(run_checked(FailedSteps[1].ending))>>

\* install ended well after initializing two environments, one of which had
\* to be created.
C15_Witness ==
    /\ inv.command = "install" /\ Finished /\ out.exit = Some(0)
    /\ InitializedNames = <<"a", "b">>
    /\ \E k \in DOMAIN out.log : out.log[k].step = "uv venv"

\* install stopped at the second environment, whose installation failed.
InstallFailedAtSecond ==
    /\ inv.command = "install" /\ Finished /\ out.exit = Some(1)
    /\ InitializedNames = <<"a", "b">>
    /\ out.stderr = <<"ExternalCommandError">>

\* The literal `--` stands right before the command tokens.
DelimiterBeforeCommand(argv) ==
    \E k \in DOMAIN argv :
        argv[k] = "--" /\ SubSeq(argv, k + 1, Len(argv)) = CommandTokens

FailedWith(error) == out.raised = Some(error) \/ out.stderr = <<error>>

\* Nothing but the delimiter check has happened, and the run ends with
\* the delimiter-required error.
OnlyDelimiterFailure ==
    /\ out.log = <<>>
    /\ out.settings = None /\ out.env = None
    /\ targets = inv.initially
    /\ Finished => (FailedWith("CommandDelimiterRequiredError") /\ out.exit = Some(1))

\* C16: exec invoked without a literal `--` before the command tokens fails
\* with the delimiter-required error before any other processing: no
\* configuration is loaded, no environment selected or provisioned, no
\* command run.
C16_DelimiterRequiredFirst ==
    (inv.command = "exec" /\ ~DelimiterBeforeCommand(inv.argv)) =>
        OnlyDelimiterFailure

\* The same for the invocations whose arguments hold no `--` at all.
DelimiterAbsentFailsFirst ==
    (inv.command = "exec" /\ ~argv_has_delimiter(inv.argv)) => OnlyDelimiterFailure

\* exec ran the command although `--` came only after it.
CommandRunWithTrailingDelimiter ==
    /\ inv.command = "exec" /\ ~DelimiterBeforeCommand(inv.argv)
    /\ Finished /\ out.exit = Some(0)
    /\ \E k \in DOMAIN out.log : out.log[k].step = "uv run"

\* The positions of the log where that step ended that way.
StepsEnded(step, ending) ==
    {k \in DOMAIN out.log : out.log[k].step = step /\ out.log[k].ending = ending}

StepsTaken(step) == {k \in DOMAIN out.log : out.log[k].step = step}

\* exec_ has selected its environment.
ExecSelected == inv.command = "exec" /\ out.env # None

\* The selected environment had no venv when the command started, or
\* --clear was given.
ProvisioningRequired ==
    LET venv == env_venv_path(TheValue(out.env), TheValue(out.settings),
                              inv.cwd, tree, inv.initially)
    IN  ~venv_exists(inv.initially, venv) \/ inv.clear

\* C17: in exec the selected environment is provisioned (venv creation, then
\* requirement install) if and only if its venv path did not exist or
\* --clear was given; the user's command is run at most once, and only after
\* the selection and any required provisioning succeeded; when selection or
\* provisioning fails the command is never run and the exit status is 1.
C17_ExecProvisionsThenRuns ==
    /\ ExecSelected =>
          /\ (StepsTaken("uv venv") # {} \/ StepsTaken("uv pip install") # {})
                => ProvisioningRequired
          /\ (ProvisioningRequired /\ (Finished \/ out.pc = "run")) =>
                /\ Cardinality(StepsTaken("uv venv")) = 1
                /\ StepsEnded("uv venv", "ok") # {} =>
                      Cardinality(StepsTaken("uv pip install")) = 1
          /\ \A k \in StepsTaken("uv run") :
                /\ \E j \in StepsEnded("select", "ok") : j < k
                /\ ProvisioningRequired =>
                      /\ \E j \in StepsEnded("uv venv", "ok") : j < k
                      /\ \E j \in StepsEnded("uv pip install", "ok") : j < k
    /\ inv.command = "exec" =>
          /\ Cardinality(StepsTaken("uv run")) <= 1
          /\ StepsTaken("uv run") # {} => StepsEnded("select", "ok") # {}
          /\ (Finished /\ \E k \in DOMAIN out.log :
                             /\ out.log[k].step \in {"select", "uv venv", "uv pip install"}
                             /\ out.log[k].ending # "ok") =>
                /\ StepsTaken("uv run") = {}
                /\ out.exit = Some(1)

\* exec --clear on an environment whose venv existed: it was provisioned
\* anew and the command then ran.
C17_Witness ==
    /\ ExecSelected /\ Finished /\ out.exit = Some(0) /\ inv.clear
    /\ venv_exists(inv.initially,
                   env_venv_path(TheValue(out.env), TheValue(out.settings),
                                 inv.cwd, tree, inv.initially))
    /\ StepsEnded("uv venv", "ok") # {} /\ StepsEnded("uv pip install", "ok") # {}
    /\ StepsEnded("uv run", "ok") # {}

\* exec on an existing venv without --clear: the command ran without any
\* provisioning.
ExecRanWithoutProvisioning ==
    /\ ExecSelected /\ Finished /\ ~ProvisioningRequired
    /\ StepsTaken("uv venv") = {} /\ StepsTaken("uv run") # {}

\* exec whose provisioning failed: the command never ran.
ExecProvisioningFailed ==
    /\ ExecSelected /\ Finished /\ out.exit = Some(1)
    /\ StepsEnded("uv pip install", "nonzero") # {} /\ StepsTaken("uv run") = {}

\* The domain errors of the taxonomy: the tool's own error classes and the
\* errors of configuration discovery and validation.
DomainErrors ==
    UvToolboxError \cup {"MissingConfigFileError", "ConfigFileNotFoundError",
                         "ValidationError"}

\* C18: in install, exec and shim every domain error raised at any point of
\* the command is caught by the command, which prints its message to
\* standard error and exits with status 1; none propagates as an unhandled
\* exception.
C18_DomainErrorsAreCaught ==
    (inv.command \in {"install", "exec", "shim"} /\ Finished) =>
        /\ out.raised # None => TheValue(out.raised) \notin DomainErrors
        /\ out.stderr # <<>> => (out.exit = Some(1) /\ out.raised = None)

\* The errors raised after the settings were loaded are caught.
ErrorsAfterLoadingAreCaught ==
    (Finished /\ out.settings # None /\ out.exit # Some(0)) =>
        /\ out.raised = None
        /\ out.exit = Some(1)
        /\ Len(out.stderr) = 1 /\ out.stderr[1] \in UvToolboxError

\* exec without `--`: CommandDelimiterRequiredError left the command unhandled.
DelimiterErrorUnhandled ==
    /\ inv.command = "exec" /\ Finished
    /\ out.raised = Some("CommandDelimiterRequiredError") /\ out.stderr = <<>>

\* A command whose configuration is missing: the error left it unhandled.
ConfigErrorUnhandled ==
    /\ inv.command \in {"install", "shim"} /\ Finished
    /\ out.raised = Some("MissingConfigFileError") /\ out.stderr = <<>>

\* ------------------------------------------------------- shim generation

ExeNames == {"ruff", "black"}

\* The executables lists of the configurations.
ExeLists == {<<>>, <<"ruff">>, <<"black">>, <<"ruff", "black">>, <<UpToBinRuff>>}

ShimEnvironments ==
    UNION {
        {[k \in 1 .. n |->
            WithExecutables(InlineEnv(CliNames[k], <<words[k]>>), lists[k])] :
         words \in [1 .. n -> Specifiers], lists \in [1 .. n -> ExeLists]} :
        n \in 1 .. MaxEnvs}

\* What a venv directory may hold before the run: `ruff` installed, not
\* executable or missing, `black` installed or missing, and possibly the
\* shims directory of an earlier run with a `black` shim and a
\* sub-directory in it.
VenvContents ==
    [ruff : {Absent, Installed, NotExecutable},
     black : {Absent, Installed},
     earlier : BOOLEAN]

\* The entries of one venv with those contents.
VenvEntries(id, c) ==
    LET venv == [id |-> id]
        all == <<[p |-> VenvDir(venv), e |-> Directory],
                 [p |-> BinPath(venv, "ruff"), e |-> c.ruff],
                 [p |-> BinPath(venv, "black"), e |-> c.black],
                 [p |-> ShimDir(venv), e |-> IF c.earlier THEN Directory ELSE Absent],
                 [p |-> ShimPath(venv, "black"),
                  e |-> IF c.earlier
                        THEN File(Program("x", Some(BinPath(venv, "black"))))
                        ELSE Absent],
                 [p |-> ShimPath(venv, "kept"),
                  e |-> IF c.earlier THEN Directory ELSE Absent]>>
    IN  {x \in Range(all) : exists(x.e)}

\* The filesystem that holds those entries.
FilesystemOf(entries) ==
    [n \in {x.p.name : x \in entries} |->
        (CHOOSE x \in entries : x.p.name = n).e]

\* A configuration and the venvs of earlier runs.
InitShims ==
    /\ tree = EmptyTree
    /\ \E present \in SUBSET VenvIds :
          \E contents \in [present -> VenvContents] :
              targets = FilesystemOf(UNION {VenvEntries(id, contents[id]) : id \in present})
    /\ \E environments \in ShimEnvironments :
          inv = [op |-> "construct", cwd |-> 0,
                 payload |-> [environments |-> environments,
                              default_environment |-> None],
                 initially |-> targets]
    /\ out = [settings |-> None, shim_dirs |-> <<>>]
    /\ phase = "ready"

\* UvToolboxSettings.model_validate(payload), as the tests build it.
ConstructForShims ==
    /\ phase = "ready"
    /\ LET i == Inputs("model_validate", inv.cwd, None, Unset, {}, FALSE, {}, FALSE,
                       {}, FALSE)
       IN  out' = [out EXCEPT !.settings =
                      model_validate(tree, targets, i, InitKwargs(inv.payload)).settings]
    /\ phase' = "built"
    /\ inv' = [inv EXCEPT !.op = "model_validate"]
    /\ UNCHANGED <<tree, targets>>

\* create_shims(settings)
CreateShims ==
    /\ phase = "built"
    /\ out.settings # None
    /\ LET made == create_shims(TheValue(out.settings), inv.cwd, tree, targets)
       IN  /\ out' = [out EXCEPT !.shim_dirs = made.shim_dirs]
           /\ targets' = made.fs
    /\ phase' = "done"
    /\ inv' = [inv EXCEPT !.op = "create_shims"]
    /\ UNCHANGED tree

NextShims == ConstructForShims \/ CreateShims

SpecShims == InitShims /\ [][NextShims]_vars

\* --------------------------------------------------------- claims: shims

ShimsCreated == phase = "done" /\ inv.op = "create_shims"

\* The venv of the k-th configured environment.
VenvOfShimEnv(k) ==
    env_venv_path(TheValue(out.settings).environments[k], TheValue(out.settings),
                  inv.cwd, tree, inv.initially)

\* The environments that have executables listed and whose venv was there.
Contributing(k) ==
    /\ executables(TheValue(out.settings).environments[k]) # <<>>
    /\ exists(EntryAt(tree, inv.initially, VenvDir(VenvOfShimEnv(k))))

\* The contributing positions from k to n, in order.
RECURSIVE ContributingFrom(_, _)
ContributingFrom(k, n) ==
    IF k > n THEN <<>>
    ELSE (IF Contributing(k) THEN <<k>> ELSE <<>>) \o ContributingFrom(k + 1, n)

\* C19: create_shims returns exactly the directories <venv path>/shims of the
\* environments with a non-empty executables list and an existing venv, in
\* declaration order; the other environments contribute nothing.
C19_ShimDirsInDeclarationOrder ==
    ShimsCreated =>
        LET n == Len(TheValue(out.settings).environments)
            positions == ContributingFrom(1, n)
        IN  out.shim_dirs =
                [j \in 1 .. Len(positions) |->
                    PathOf(Elsewhere, <<VenvOfShimEnv(positions[j]).id, "shims">>)]

\* Two environments with different venvs both contributed, in order.
C19_Witness ==
    /\ ShimsCreated
    /\ Len(out.shim_dirs) = 2
    /\ out.shim_dirs[1] # out.shim_dirs[2]
    /\ out.shim_dirs[1] = ShimDir(VenvOfShimEnv(1))

\* An environment between present ones was skipped: only the second of two
\* contributed, the first having no venv.
FirstSkippedSecondReturned ==
    /\ ShimsCreated
    /\ Len(TheValue(out.settings).environments) = 2
    /\ executables(TheValue(out.settings).environments[1]) # <<>>
    /\ ~Contributing(1)
    /\ out.shim_dirs = <<ShimDir(VenvOfShimEnv(2))>>

\* The names that have a shim in the environment's shims directory.
ShimsIn(venv) ==
    {name \in ExeNames : exists(EntryAt(tree, targets, ShimPath(venv, name)))}

\* The listed executables that were in the venv's binary directory.
ListedAndInstalled(k) ==
    {name \in Range(executables(TheValue(out.settings).environments[k])) :
        exists(EntryAt(tree, inv.initially, BinPath(VenvOfShimEnv(k), name)))}

\* C20: after create_shims, the shims directory of every environment with an
\* existing venv and a non-empty executables list holds a shim for exactly
\* those of its listed executables that exist in the venv's binary
\* directory: none for unlisted ones, none for listed ones missing from the
\* venv, none left over from an earlier run.
C20_ShimsExactlyForListedInstalled ==
    ShimsCreated =>
        \A k \in 1 .. Len(TheValue(out.settings).environments) :
            Contributing(k) => ShimsIn(VenvOfShimEnv(k)) = ListedAndInstalled(k)

\* The same for the environments that share their venv with no other
\* environment and whose listed programs are plain names and, where
\* present, executable.
VenvOfItsOwn(k) ==
    \A j \in 1 .. Len(TheValue(out.settings).environments) :
        j # k => VenvOfShimEnv(j) # VenvOfShimEnv(k)

ShimsExactWhenVenvNotShared ==
    ShimsCreated =>
        \A k \in 1 .. Len(TheValue(out.settings).environments) :
            (/\ Contributing(k)
             /\ VenvOfItsOwn(k)
             /\ Range(executables(TheValue(out.settings).environments[k]))
                    \subseteq ExeNames
             /\ \A name \in ListedAndInstalled(k) :
                   access_X_OK(EntryAt(tree, inv.initially,
                                       BinPath(VenvOfShimEnv(k), name))))
                => ShimsIn(VenvOfShimEnv(k)) = ListedAndInstalled(k)

\* Two environments share a venv; the first lists ruff, the second black,
\* both installed: the shims directory holds black alone.
SharedVenvLosesShim ==
    /\ ShimsCreated
    /\ Len(TheValue(out.settings).environments) = 2
    /\ VenvOfShimEnv(1) = VenvOfShimEnv(2)
    /\ Contributing(1)
    /\ ListedAndInstalled(1) = {"ruff"}
    /\ ShimsIn(VenvOfShimEnv(1)) = {"black"}

\* The shim of an earlier run is gone and the listed one is there.
EarlierShimCleared ==
    /\ ShimsCreated
    /\ Contributing(1) /\ VenvOfItsOwn(1)
    /\ exists(EntryAt(tree, inv.initially, ShimPath(VenvOfShimEnv(1), "black")))
    /\ ShimsIn(VenvOfShimEnv(1)) = {"ruff"}

\* ------------------------------------------- claims: directory candidates

\* The tree without the directories that bear one of the given names.
WithoutDirectoriesNamed(t, names) ==
    [d \in Dirs |->
        [n \in EntryNames |->
            IF n \in names /\ t[d][n].kind = "dir" THEN Absent ELSE t[d][n]]]

\* Discovery went as it would have without those directories.
AsIfWithout(names) ==
    LET asif == _find_config_file(WithoutDirectoriesNamed(tree, names), inv.cwd)
    IN  /\ out.visited = asif.visited
        /\ out.config_file =
              (IF asif.result.tag = "found" THEN Some(asif.result.path) ELSE None)

\* C21: at each directory visited, a candidate path (any of the four
\* recognized names) that is a directory rather than a regular file is
\* treated as not found: it is never returned as the config file and the
\* search continues as if it were absent.
C21_DirectoryCandidateIsNotFound ==
    Discovered =>
        /\ out.config_file # None =>
              is_file(EntryAt(tree, targets, TheValue(out.config_file)))
        /\ AsIfWithout(RecognizedNames)

\* The same for pyproject.toml alone.
PyprojectDirectoryIsNotFound ==
    Discovered =>
        /\ (out.config_file # None /\ TheValue(out.config_file).name = PyprojectName) =>
              is_file(EntryAt(tree, targets, TheValue(out.config_file)))
        /\ AsIfWithout({PyprojectName})

\* A directory named like a dedicated config file was returned.
DirectoryReturnedAsConfig ==
    /\ Discovered /\ out.config_file # None
    /\ EntryAt(tree, targets, TheValue(out.config_file)).kind = "dir"

\* A directory named pyproject.toml was passed over and the file above found.
PyprojectDirectoryPassedOver ==
    /\ Discovered /\ out.config_file # None
    /\ tree[inv.cwd][PyprojectName].kind = "dir"
    /\ TheValue(out.config_file).dir < inv.cwd

\* -------------------------------------------------- claims: provisioning

\* The venv of the configured environment of that name.
VenvNamed(name) ==
    env_venv_path(FirstNamed(TheValue(out.settings), name), TheValue(out.settings),
                  inv.cwd, tree, inv.initially)

\* The venv of the environment of step k was there when the step began:
\* it was there at the start, or an earlier creation made it.
ExistedAt(k) ==
    \/ venv_exists(inv.initially, VenvNamed(out.log[k].env))
    \/ \E j \in 1 .. (k - 1) :
          /\ out.log[j].step = "uv venv" /\ out.log[j].ending = "ok"
          /\ VenvNamed(out.log[j].env) = VenvNamed(out.log[k].env)

\* The steps of the call of initialize_virtualenv recorded at k: those up
\* to the next call.
StepsOfCall(k, step) ==
    {j \in StepsTaken(step) :
        /\ k < j
        /\ \A c \in StepsTaken("initialize_virtualenv") : c > k => j < c}

\* That call has returned or raised.
CallEnded(k) ==
    \/ \E c \in StepsTaken("initialize_virtualenv") : c > k
    \/ out.pc \notin {"create", "install"}

\* C22: initialize_virtualenv invokes the venv creation if and only if the
\* venv path does not exist or clear is requested; a creation completes
\* before the install step starts; and the install step runs exactly once
\* in every call in which the creation was skipped or succeeded, also when
\* the venv already existed.
C22_InitializeCreatesThenInstalls ==
    \A k \in StepsTaken("initialize_virtualenv") :
        LET creations == StepsOfCall(k, "uv venv")
            installs == StepsOfCall(k, "uv pip install")
            required == ~ExistedAt(k) \/ inv.clear
        IN  /\ creations # {} => required
            /\ (required /\ (CallEnded(k) \/ out.pc = "install")) =>
                  Cardinality(creations) = 1
            /\ \A i \in installs : \A c \in creations :
                  c < i /\ out.log[c].ending = "ok"
            /\ Cardinality(installs) <= 1
            /\ (CallEnded(k) /\ \A c \in creations : out.log[c].ending = "ok") =>
                  Cardinality(installs) = 1

\* install without --clear on a venv that was there: no creation, one install.
C22_Witness ==
    /\ inv.command = "install" /\ Finished /\ ~inv.clear
    /\ \E k \in StepsTaken("initialize_virtualenv") :
          /\ venv_exists(inv.initially, VenvNamed(out.log[k].env))
          /\ StepsOfCall(k, "uv venv") = {}
          /\ Cardinality(StepsOfCall(k, "uv pip install")) = 1

\* The second environment found the venv the first had just created, and
\* only installed.
SecondCallSkipsCreation ==
    /\ inv.command = "install" /\ Finished /\ ~inv.clear
    /\ Cardinality(StepsTaken("initialize_virtualenv")) = 2
    /\ Cardinality(StepsTaken("uv venv")) = 1
    /\ Cardinality(StepsTaken("uv pip install")) = 2

\* The temporary requirement directories there are.
TempDirs(tg) == {n \in DOMAIN tg : n[1] = "tmp"}

\* C23: for an environment with inline requirements, the temporary
\* requirements directory install_requirements made is gone by the time
\* install_requirements returns or raises, whether the install command
\* succeeded, exited non-zero, or was missing.
C23_TempDirAlwaysRemoved ==
    \A k \in StepsTaken("uv pip install") :
        requirements_argument(FirstNamed(TheValue(out.settings), out.log[k].env)).kind
            = "inline"
        => ~exists(EntryAt(tree, targets, TempDir(out.log[k].env)))

\* The same for the calls whose install command succeeded.
TempDirRemovedAfterSuccess ==
    \A k \in StepsEnded("uv pip install", "ok") :
        ~exists(EntryAt(tree, targets, TempDir(out.log[k].env)))

\* The install command exited non-zero and the temporary directory is
\* still there when the command has ended.
TempDirLeftBehind ==
    /\ Finished /\ StepsEnded("uv pip install", "nonzero") # {}
    /\ TempDirs(targets) # {}

\* An install that succeeded, with no temporary directory left.
TempDirGoneAfterSuccess ==
    /\ Finished /\ StepsEnded("uv pip install", "ok") # {}
    /\ TempDirs(targets) = {}

\* The external steps of provisioning that failed.
FailedProvisioning ==
    {k \in StepsTaken("uv venv") \cup StepsTaken("uv pip install") :
        out.log[k].ending # "ok"}

\* What C24 says of each state.
AbortsAtFailure ==
    /\ \A c \in StepsTaken("uv venv") :
          out.log[c].ending # "ok" =>
              /\ \A i \in StepsTaken("uv pip install") : i < c
              /\ Finished /\ out.exit = Some(1)
              /\ FailedWith(TheValue(run_checked(out.log[c].ending)))
    /\ inv.command = "install" =>
          \A f \in FailedProvisioning :
              /\ f = Len(out.log)
              /\ Finished /\ out.exit = Some(1)
              /\ \A k \in StepsTaken("initialize_virtualenv") :
                    (k < f /\ StepsEnded("uv pip install", "ok") \cap StepsOfCall(k, "uv pip install") # {})
                        => venv_exists(targets, VenvNamed(out.log[k].env))

\* What C24 says of each step: the step that fails removes and changes
\* nothing that was there.
NoRollback ==
    (out.pc \in {"create", "install"} /\ out'.pc = "exited") =>
        \A n \in DOMAIN targets : n \in DOMAIN targets' /\ targets'[n] = targets[n]

\* C24: a failing external step aborts the operation: when the venv
\* creation exits non-zero or its executable is missing, the install step
\* is never invoked for that environment and a typed error surfaces; in
\* install, once an initialization fails no later environment is
\* initialized, and the venvs of the environments initialized earlier are
\* left as they are.
C24_FailureAbortsWithoutRollback == [](AbortsAtFailure) /\ [][NoRollback]_vars

\* install with two environments: the first was initialized, the creation
\* of the second failed, and the first venv is still there.
C24_Witness ==
    /\ inv.command = "install" /\ Finished /\ out.exit = Some(1)
    /\ StepsEnded("uv pip install", "ok") # {}
    /\ \E c \in StepsTaken("uv venv") :
          /\ out.log[c].ending = "nonzero" /\ out.log[c].env = "b"
          /\ VenvNamed("a") # VenvNamed("b")
          /\ venv_exists(targets, VenvNamed("a"))
          /\ exists(EntryAt(tree, targets, Packages(VenvNamed("a"))))

\* ------------------------------------------------- process environments
\* A variable's value is a str, modelled as the sequence of its pieces: a
\* literal piece or a reference `$NAME`.

MaxSetenv == 2

References == {"$ROOT", "$VIRTUAL_ENV"}
Referred(piece) == IF piece = "$ROOT" THEN "ROOT" ELSE "VIRTUAL_ENV"

\* os.path.expandvars(value): every reference to a variable that is set is
\* replaced by its value, which is not scanned again; the others stay.
RECURSIVE expandvars(_, _)
expandvars(value, environ) ==
    IF value = <<>> THEN <<>>
    ELSE (IF Head(value) \in References /\ Referred(Head(value)) \in DOMAIN environ
          THEN environ[Referred(Head(value))] ELSE <<Head(value)>>)
         \o expandvars(Tail(value), environ)

\* str(venv_path) of a venv under the default venv_path.
VenvString(venv) == <<"~/.cache/uv-toolbox/", venv.id>>

\* A mutation of process_env: the extra variables are applied last.
process_env_extras_last(env_environment, venv, environ) ==
    [k \in DOMAIN env_environment \cup {"VIRTUAL_ENV"} |->
        IF k \in DOMAIN env_environment
        THEN expandvars(env_environment[k], environ) ELSE VenvString(venv)]

\* UvToolboxEnvironment.process_env; os.environ is read when it is called.
process_env(env_environment, venv, environ) ==
    [k \in DOMAIN env_environment \cup {"VIRTUAL_ENV"} |->
        IF k = "VIRTUAL_ENV" THEN VenvString(venv)
        ELSE expandvars(env_environment[k], environ)]

\* run_checked: env={**os.environ, **(extra_env or {})}
subprocess_env(environ, extra_env) ==
    [k \in DOMAIN environ \cup DOMAIN extra_env |->
        IF k \in DOMAIN extra_env THEN extra_env[k] ELSE environ[k]]

\* The external commands: each is handed extra_env=env.process_env(settings).
ExternalCommands == {"uv venv", "uv pip install", "uv run"}

EnvironValues == {<<"/r1">>, <<"/r2">>}
ExtraValues == {<<"$ROOT", "/tools">>, <<"$VIRTUAL_ENV">>, <<"plain">>}

Environs == UNION {[names -> EnvironValues] : names \in SUBSET {"ROOT", "VIRTUAL_ENV"}}
Extras == UNION {[names -> ExtraValues] : names \in SUBSET {"TOOLS", "VIRTUAL_ENV"}}

\* The environment `a` with those extra variables, in settings of its own.
EnvWithExtras(extras) == [InlineEnv("a", <<"ruff">>) EXCEPT !.environment = extras]

SettingsOf(env) == Settings(None, DefaultVenvPath, None, FALSE, <<env>>)

\* The configuration is loaded in some process environment.
InitEnv ==
    /\ tree = EmptyTree
    /\ targets = [n \in {} |-> Absent]
    /\ \E extras \in Extras, environ \in Environs :
          /\ inv = [op |-> "loaded", cwd |-> 0, env |-> EnvWithExtras(extras),
                    loaded_in |-> environ, changes |-> 0]
          /\ out = [environ |-> environ, command |-> None, handed |-> None]
    /\ phase = "loaded"

\* os.environ changes after the configuration was loaded.
Setenv ==
    /\ phase = "loaded"
    /\ inv.changes < MaxSetenv
    /\ \E k \in {"ROOT", "VIRTUAL_ENV"}, v \in EnvironValues :
          out' = [out EXCEPT !.environ =
                     [n \in DOMAIN out.environ \cup {k} |->
                         IF n = k THEN v ELSE out.environ[n]]]
    /\ inv' = [inv EXCEPT !.changes = @ + 1]
    /\ UNCHANGED <<tree, targets, phase>>

Unsetenv ==
    /\ phase = "loaded"
    /\ inv.changes < MaxSetenv
    /\ \E k \in DOMAIN out.environ :
          out' = [out EXCEPT !.environ =
                     [n \in DOMAIN out.environ \ {k} |-> out.environ[n]]]
    /\ inv' = [inv EXCEPT !.changes = @ + 1]
    /\ UNCHANGED <<tree, targets, phase>>

\* An external command is prepared and handed its environment.
PrepareCommand ==
    /\ phase = "loaded"
    /\ \E command \in ExternalCommands :
          out' = [out EXCEPT
                     !.command = Some(command),
                     !.handed = Some(subprocess_env(
                         out.environ,
                         process_env(inv.env.environment,
                                     env_venv_path(inv.env, SettingsOf(inv.env),
                                                   inv.cwd, tree, targets),
                                     out.environ)))]
    /\ phase' = "prepared"
    /\ inv' = [inv EXCEPT !.op = "run_checked"]
    /\ UNCHANGED <<tree, targets>>

NextEnv == Setenv \/ Unsetenv \/ PrepareCommand

SpecEnv == InitEnv /\ [][NextEnv]_vars

\* ------------------------------------------- claims: process environment

Prepared == phase = "prepared"

\* The value of an extra variable with its references replaced from that
\* environment, piece by piece.
Replaced(value, environ) ==
    LET piece(k) == IF value[k] \in References /\ Referred(value[k]) \in DOMAIN environ
                    THEN environ[Referred(value[k])] ELSE <<value[k]>>
    IN  CASE Len(value) = 1 -> piece(1)
          [] Len(value) = 2 -> piece(1) \o piece(2)

\* C25: the environment handed to an external command is the process
\* environment, overridden by the environment's extra variables, overridden
\* by VIRTUAL_ENV set to the venv path; references in the extra values are
\* expanded against the process environment as it is when the command is
\* prepared.
C25_HandedEnvironment ==
    Prepared =>
        LET handed == TheValue(out.handed)
            extras == inv.env.environment
            venv == env_venv_path(inv.env, SettingsOf(inv.env), inv.cwd, tree, targets)
        IN  /\ DOMAIN handed = DOMAIN out.environ \cup DOMAIN extras \cup {"VIRTUAL_ENV"}
            /\ handed["VIRTUAL_ENV"] = <<"~/.cache/uv-toolbox/", venv.id>>
            /\ \A k \in DOMAIN extras \ {"VIRTUAL_ENV"} :
                  handed[k] = Replaced(extras[k], out.environ)
            /\ \A k \in DOMAIN out.environ \ (DOMAIN extras \cup {"VIRTUAL_ENV"}) :
                  handed[k] = out.environ[k]

\* ROOT changed after the load, TOOLS refers to it, and both the process
\* environment and the extra variables define VIRTUAL_ENV.
C25_Witness ==
    /\ Prepared
    /\ "ROOT" \in DOMAIN inv.loaded_in /\ "ROOT" \in DOMAIN out.environ
    /\ inv.loaded_in["ROOT"] # out.environ["ROOT"]
    /\ "TOOLS" \in DOMAIN inv.env.environment
    /\ inv.env.environment["TOOLS"] = <<"$ROOT", "/tools">>
    /\ "VIRTUAL_ENV" \in DOMAIN inv.env.environment
    /\ "VIRTUAL_ENV" \in DOMAIN out.environ
    /\ TheValue(out.handed)["TOOLS"] = out.environ["ROOT"] \o <<"/tools">>

\* ------------------------------------------------ claims: missing config

\* MissingConfigFileError(config_candidates): the failure reports what it
\* was constructed with, the candidate paths; it is told of no boundary.
MissingConfigFileError(config_candidates) ==
    [candidates |-> config_candidates, boundary |-> None]

NothingFound == Discovered /\ out.status = "MissingConfigFileError"

\* The walk ended at a directory that holds `.git`.
StoppedAtBoundary ==
    /\ out.visited # <<>>
    /\ exists(tree[out.visited[Len(out.visited)]][GitName])

\* The candidate names of the starting directory are reported.
CandidatesReported ==
    NothingFound =>
        MissingConfigFileError(out.candidates).candidates =
            [k \in 1 .. Len(NameOrder) |-> PathOf(inv.cwd, NameOrder[k])]

MissingBelowBoundary ==
    /\ NothingFound /\ StoppedAtBoundary
    /\ out.visited[Len(out.visited)] < inv.cwd

\* ------------------------------------------------ concurrent invocations
\* Two invocations of `exec` run side by side on one filesystem; each has
\* loaded its settings and selected its environment.  Every step is one
\* statement of exec_ or one external command.

Procs == {"p1", "p2"}

\* The venv of the environment an invocation selected.
VenvOfProc(proc, i, t, tg) ==
    env_venv_path(TheValue(proc.env), TheValue(proc.settings), i.cwd, t, tg)

InitRace ==
    /\ tree = EmptyTree
    /\ \E ids \in SUBSET VenvIds : targets = VenvsOf(ids)
    /\ \E words \in [Procs -> Specifiers], clear \in [Procs -> BOOLEAN] :
          /\ inv = [op |-> "exec", cwd |-> 0, clear |-> clear, initially |-> targets]
          /\ out = [p \in Procs |->
                       Process("check", Some(SettingsOf(InlineEnv("a", <<words[p]>>))),
                               Some(InlineEnv("a", <<words[p]>>)), 1,
                               <<>>, <<>>, None, None)]
    /\ phase = "running"

\* exec_: if not env.venv_path(settings=settings).exists() or clear
RaceCheck(p) ==
    /\ out[p].pc = "check"
    /\ out' = [out EXCEPT ![p].pc =
                  IF exec_needs_initialize(targets,
                                           VenvOfProc(out[p], inv, tree, targets),
                                           inv.clear[p])
                  THEN "initialize" ELSE "run"]
    /\ UNCHANGED <<tree, targets, inv, phase>>

RaceInitialize(p) ==
    /\ out[p].pc = "initialize"
    /\ out' = [out EXCEPT ![p] =
                  initialize_virtualenv(out[p], targets,
                                        VenvOfProc(out[p], inv, tree, targets),
                                        TheValue(out[p].env), inv.clear[p])]
    /\ UNCHANGED <<tree, targets, inv, phase>>

RaceCreate(p) ==
    /\ out[p].pc = "create"
    /\ \E ending \in ExitsOfExternal :
          LET done == create_virtualenv(out[p], targets,
                                        VenvOfProc(out[p], inv, tree, targets),
                                        TheValue(out[p].env), ending)
          IN  out' = [out EXCEPT ![p] = done.proc] /\ targets' = done.fs
    /\ UNCHANGED <<tree, inv, phase>>

RaceInstall(p) ==
    /\ out[p].pc = "install"
    /\ \E ending \in ExitsOfExternal :
          LET done == install_requirements(out[p], targets,
                                           VenvOfProc(out[p], inv, tree, targets),
                                           TheValue(out[p].env), p, "run", ending)
          IN  out' = [out EXCEPT ![p] = done.proc] /\ targets' = done.fs
    /\ UNCHANGED <<tree, inv, phase>>

RaceRun(p) ==
    /\ out[p].pc = "run"
    /\ \E ending \in ExitsOfExternal :
          out' = [out EXCEPT ![p] =
                     IF run_checked(ending) = None
                     THEN Returned(Logged(out[p], Event("uv run", "a", ending)))
                     ELSE RaisedInTry(Logged(out[p], Event("uv run", "a", ending)),
                                      TheValue(run_checked(ending)))]
    /\ UNCHANGED <<tree, targets, inv, phase>>

NextRace ==
    \E p \in Procs :
        RaceCheck(p) \/ RaceInitialize(p) \/ RaceCreate(p) \/ RaceInstall(p) \/ RaceRun(p)

SpecRace == InitRace /\ [][NextRace]_vars

\* -------------------------------------------------- claims: concurrency

\* The venv and whether the packages are in it.
RaceVenv(p) == VenvOfProc(out[p], inv, tree, inv.initially)
PackagesIn(tg, venv) == exists(EntryAt(tree, tg, Packages(venv)))

\* Invocation p ran `uv venv` and it succeeded.
Created(p) ==
    \E k \in DOMAIN out[p].log :
        out[p].log[k].step = "uv venv" /\ out[p].log[k].ending = "ok"

\* Invocation p ran `uv pip install` and it succeeded.
Installed_(p) ==
    \E k \in DOMAIN out[p].log :
        out[p].log[k].step = "uv pip install" /\ out[p].log[k].ending = "ok"

\* C27: nothing protects a venv path.  An invocation that found the path
\* missing (or was told to clear) runs the creation whatever another
\* invocation has done there since, and a creation that succeeds leaves the
\* directory empty, so there are interleavings in which both invocations
\* create the same venv and one wipes what the other has installed.
C27_CreationClearsUnguarded ==
    [][\A p \in Procs :
          (out[p].pc = "create" /\ out'[p].pc = "install") =>
              /\ venv_exists(targets', RaceVenv(p))
              /\ ~PackagesIn(targets', RaceVenv(p))
              /\ \A q \in Procs \ {p} : out'[q] = out[q]]_vars

\* Both invocations found the same venv path missing and both created it;
\* the second creation came after the first invocation's install, whose
\* packages are gone while that invocation goes on to run its command.
C27_Witness ==
    /\ RaceVenv("p1") = RaceVenv("p2")
    /\ ~venv_exists(inv.initially, RaceVenv("p1"))
    /\ ~inv.clear["p1"] /\ ~inv.clear["p2"]
    /\ Created("p1") /\ Installed_("p1") /\ out["p1"].pc = "run"
    /\ Created("p2") /\ out["p2"].pc = "install"
    /\ ~PackagesIn(targets, RaceVenv("p1"))

\* ------------------------------------------ claims: identity and content

EnvironmentInstalled == phase = "installed" /\ inv.op = "install_requirements"

\* C28: for every Environment that validation lets through, the identifier
\* of its venv directory is the hash of the normalized text that
\* install_requirements hands to the package manager: both take the
\* requirements file when there is one and the inline text otherwise.
C28_IdentityMatchesContent ==
    EnvironmentInstalled =>
        /\ out.reqs_arg.kind # "unbound"
        /\ out.req_hash = sha256_hexdigest_12(_normalize_requirements(out.handed))
        /\ (out.reqs_arg.kind = "file") =
              ~(/\ TheValue(out.environment).requirements # None
                /\ TheValue(out.environment).requirements # Some(<<>>))

\* An Environment with the empty inline string and a requirements file:
\* the file names the venv and the file is installed.
C28_Witness ==
    /\ EnvironmentInstalled
    /\ TheValue(out.environment).requirements = Some(<<>>)
    /\ TheValue(out.environment).requirements_file # None
    /\ out.reqs_arg.kind = "file"
    /\ out.req_hash = sha256_hexdigest_12(<<"pkg-083164ffed5a">>)

\* An Environment with inline requirements only: the inline text names the
\* venv and is what the temporary file holds.
InlineNamedAndInstalled ==
    /\ EnvironmentInstalled
    /\ TheValue(out.environment).requirements_file = None
    /\ out.reqs_arg.kind = "inline"
    /\ out.handed = Text(<<"ruff">>)
    /\ out.req_hash = sha256_hexdigest_12(<<"ruff">>)

\* ------------------------------------------------- the governing file
\* from_context in directories that hold several recognized files, with and
\* without an explicit override, and with fields given by explicit
\* arguments and UV_TOOLBOX_<FIELD> variables.

\* What a directory of the chain may hold.
GoverningDirs ==
    {EmptyDir, YamlDir,
     [EmptyDir EXCEPT ![JsonName] = File(RootBody), ![TomlName] = File(RootBody)],
     [EmptyDir EXCEPT ![TomlName] = File(RootBody),
                      ![PyprojectName] = File(ValidBody)],
     [EmptyDir EXCEPT ![YamlName] = Directory, ![JsonName] = File(RootBody)],
     [EmptyDir EXCEPT ![PyprojectName] = File(NoSectionBody)]}

\* The path an explicit override names, outside the chain.
GoverningOverride == PathOf(Elsewhere, <<"cfg", "yaml">>)

InitGoverning ==
    /\ tree \in [Dirs -> GoverningDirs]
    /\ \E e \in {File(RootBody), Directory} :
          targets = [n \in {GoverningOverride.name} |-> e]
    /\ inv = NoInputs
    /\ out = NoOutcome
    /\ phase = "ready"

InvokeFromContext ==
    /\ phase = "ready"
    /\ \E cwd \in Dirs, how \in {"discover", "flag", "variable"},
          cli \in SUBSET {"venv_path"}, environ \in SUBSET {"environments"},
          fileKeys \in {{"environments"},
                        {"environments", "venv_path", "default_environment"}},
          lean \in Dirs \cup {Elsewhere} :
         LET i == Inputs("from_context", cwd,
                         IF how = "flag" THEN Some(GoverningOverride) ELSE None,
                         IF how = "variable" THEN SetTo(GoverningOverride) ELSE Unset,
                         cli, FALSE, environ, FALSE, fileKeys, FALSE)
         IN  /\ inv' = i @@ [lean |-> lean]
             /\ out' = from_context(tree, targets, i @@ [lean |-> lean])
    /\ phase' = "done"
    /\ UNCHANGED <<tree, targets>>

NextGoverning == InvokeFromContext

SpecGoverning == InitGoverning /\ [][NextGoverning]_vars

\* -------------------------------------------------- claims: governing file

\* The path _verify_config_file is to store: the explicit override when
\* there is one, else what discovery returns.
GoverningPath ==
    IF OverridePath(inv) # None THEN OverridePath(inv)
    ELSE LET found_config == _find_config_file(tree, inv.cwd)
         IN  IF found_config.result.tag = "found"
             THEN Some(found_config.result.path) ELSE None

\* What the governing path alone provides.
GoverningData(p) ==
    FileSource(tree, targets, inv, _config_file_source(p), p).data

\* C29: every Settings from_context produces has config_file set, to the
\* explicit override or else to the discovered path, and every field that
\* neither an explicit argument nor a UV_TOOLBOX_<FIELD> variable gives has
\* the value that one path provides, or its default when that path does
\* not provide it (environments has no default, some source provides it): no other recognized file contributes, in the working
\* directory or anywhere else.
C29_OneGoverningFile ==
    (Produced /\ inv.op = "from_context") =>
        LET st == TheValue(out.settings)
        IN  /\ st.config_file # None
            /\ st.config_file = GoverningPath
            /\ st.config_file = out.config_file
            /\ \A f \in Fields \ (inv.cli \cup inv.environ) :
                  st[f] = IF f \in DOMAIN GoverningData(TheValue(st.config_file))
                          THEN GoverningData(TheValue(st.config_file))[f]
                          ELSE IF f = "environments" THEN <<>>
                          ELSE DefaultValue(f)

\* An override governs while the working directory holds a loadable
\* uv-toolbox.yaml with more keys: the fields the override file lacks are
\* at their defaults.
C29_Witness ==
    /\ Produced /\ inv.op = "from_context"
    /\ inv.flag = Some(GoverningOverride)
    /\ tree[inv.cwd] = YamlDir
    /\ inv.lean = Elsewhere
    /\ "venv_path" \in inv.fileKeys /\ inv.cli = {} /\ inv.environ = {}
    /\ TheValue(out.settings).config_file = Some(GoverningOverride)
    /\ TheValue(out.settings).venv_path = DefaultVenvPath
    /\ TheValue(out.settings).default_environment = None

\* The discovered file is the uv-toolbox.json of an ancestor; the working
\* directory holds a pyproject.toml without the table, the ancestor also a
\* uv-toolbox.toml with more keys.
DiscoveredAloneGoverns ==
    /\ Produced /\ inv.op = "from_context"
    /\ OverridePath(inv) = None
    /\ inv.cwd = MaxDepth
    /\ is_file(tree[inv.cwd][PyprojectName])
    /\ TheValue(out.settings).config_file = Some(PathOf(inv.cwd - 1, JsonName))
    /\ is_file(tree[inv.cwd - 1][TomlName])
    /\ "venv_path" \in inv.fileKeys
    /\ TheValue(out.settings).venv_path.at = Some(PathOf(inv.cwd - 1, JsonName))

\* The governing path is a directory and the environments come from the
\* variable: no field is read from a file.
DirectoryGovernsNothingRead ==
    /\ Produced /\ inv.op = "from_context"
    /\ ~is_file(EntryAt(tree, targets, TheValue(TheValue(out.settings).config_file)))
    /\ tree[inv.cwd] = YamlDir
    /\ "venv_path" \in inv.fileKeys /\ inv.lean # inv.cwd /\ inv.cli = {}
    /\ TheValue(out.settings).venv_path = DefaultVenvPath

\* ------------------------------------------------ claims: frame of shims

\* An entry inside a shims directory.
UnderShims(n) == Len(n) = 3 /\ n[2] = "shims"

\* The venv of that id is one whose shims create_shims is to write.
ContributingVenv(id) ==
    \E k \in 1 .. Len(TheValue(out.settings).environments) :
        Contributing(k) /\ VenvOfShimEnv(k).id = id

\* The entry is as it was before the run.
Untouched(n) ==
    /\ (n \in DOMAIN targets) = (n \in DOMAIN inv.initially)
    /\ n \in DOMAIN targets => targets[n] = inv.initially[n]

\* Nothing changed but the shims directories of the venvs that exist and
\* whose environment lists executables, and there only plain files went.
OnlyShimsChanged ==
    \A n \in DOMAIN targets \cup DOMAIN inv.initially :
        /\ (Len(n) < 2 \/ n[2] # "shims" \/ ~ContributingVenv(n[1])) => Untouched(n)
        /\ (Len(n) = 2 /\ n[2] = "shims" /\ n \in DOMAIN inv.initially)
              => Untouched(n)
        /\ (UnderShims(n) /\ n \in DOMAIN inv.initially /\ ~is_file(inv.initially[n]))
              => Untouched(n)

\* C30: create_shims changes nothing outside the shims directories of the
\* venvs that exist and whose environment lists executables: no directory
\* appears for an absent venv or an empty list, every binary directory and
\* all other venv contents stay as they were, and inside a shims directory
\* only plain files are removed.
C30_ChangesOnlyShims == ShimsCreated => OnlyShimsChanged

\* Every listed executable is a plain name.
PlainNames ==
    \A k \in 1 .. Len(TheValue(out.settings).environments) :
        Range(executables(TheValue(out.settings).environments[k])) \subseteq ExeNames

\* The frame holds when every listed executable is a plain name.
OnlyShimsChangedForPlainNames == (ShimsCreated /\ PlainNames) => OnlyShimsChanged

\* The environment lists `../bin/ruff`: the program in the binary directory
\* is now the wrapper script, which execs itself.
BinaryOverwritten ==
    /\ ShimsCreated
    /\ executables(TheValue(out.settings).environments[1]) = <<UpToBinRuff>>
    /\ EntryAt(tree, inv.initially, BinPath(VenvOfShimEnv(1), "ruff")) = Installed
    /\ EntryAt(tree, targets, BinPath(VenvOfShimEnv(1), "ruff")) =
          File(Program("x", Some(BinPath(VenvOfShimEnv(1), "ruff"))))

\* With plain names: the shims directory was made and filled, the
\* sub-directory in it stayed, the earlier shim went.
ShimsWrittenDirectoryKept ==
    /\ ShimsCreated /\ PlainNames
    /\ Contributing(1) /\ VenvOfItsOwn(1)
    /\ exists(EntryAt(tree, inv.initially, ShimPath(VenvOfShimEnv(1), "kept")))
    /\ exists(EntryAt(tree, targets, ShimPath(VenvOfShimEnv(1), "kept")))
    /\ ShimsIn(VenvOfShimEnv(1)) = {"ruff"}

\* No shims directory for an environment without executables.
NoDirectoryForEmptyList ==
    /\ ShimsCreated
    /\ Len(TheValue(out.settings).environments) = 1
    /\ executables(TheValue(out.settings).environments[1]) = <<>>
    /\ venv_exists(inv.initially, VenvOfShimEnv(1))
    /\ ~exists(EntryAt(tree, targets, ShimDir(VenvOfShimEnv(1))))

====
